---- MODULE Spec2Model ----
(***************************************************************************)
(* Price Rule Debugger: the rule parser (parseXmlRules), the booking       *)
(* evaluator (isBookingAllowedByRule) and the application state that       *)
(* feeds them (rule set, booking test entries, booking creation date).     *)
(*                                                                         *)
(* JavaScript values are modelled as tagged records so that null, NaN,     *)
(* numbers and strings stay distinct and the language's truthiness and     *)
(* comparison rules can be written out.                                    *)
(***************************************************************************)
EXTENDS Integers, Sequences, FiniteSets, TLC

VARIABLES
  dateFns,      \* the date-fns major version of the build
  evalArgs,     \* arguments of the isBookingAllowedByRule call under test
  evalResult,   \* its outcome, or Pending before the call
  rules,        \* App state: the loaded rule set
  bookingEntries, \* App state: the booking test entries {startDate, length}
  bookingDate,  \* App state: the booking creation date
  highlighted,  \* outcome of the highlightedRuleIds memo of the last render
  allowed,      \* BookingSelector: per entry, the outcome of its allowedRules ids
  fileText,     \* the document text handed to parseXmlRules
  parsed,       \* the outcome of that parseXmlRules call, or Pending
  parseLog,     \* history: the parseXmlRules calls made so far, with their outcomes
  year,         \* App state: the display year
  searchHistory, \* App state: the recent searches {accommodationCode, season}
  saleabilityData, \* App state: the saleability data, or null
  accommodationCode, \* APIConfiguration state: the accommodation code input
  season,       \* APIConfiguration state: the season select
  isLoading,    \* APIConfiguration state: a fetch is in progress
  fetchCall,    \* the handleFetchFromAPI call in progress: its position and locals
  alerted,      \* the alert shown by the last operation, or null
  fetchCount,   \* history: the number of fetches started so far
  viewMode,     \* App state: 'year' or 'month'
  selectedMonth, \* App state: the month of the month view, 0..11
  searchLog,    \* history: the searches performed, each once, the latest last
  upload        \* the file text of the last handleFileChange call, or Pending

parseVars == <<fileText, parsed, parseLog>>
evalVars == <<evalArgs, evalResult>>
appVars == <<rules, bookingEntries, bookingDate>>
renderVars == <<highlighted, allowed>>
loadVars == <<year, searchHistory, saleabilityData, searchLog, upload>>
navVars == <<viewMode, selectedMonth>>
apiVars == <<accommodationCode, season, isLoading, fetchCall, alerted, fetchCount>>
vars == <<dateFns, evalVars, appVars, renderVars, parseVars, loadVars, apiVars, navVars>>

(***************************************************************************)
(* JavaScript values                                                       *)
(***************************************************************************)
Null == [t |-> "null"]
NaN == [t |-> "NaN"]
Num(n) == [t |-> "num", v |-> n]
\* a string that is neither empty nor a date nor a number, e.g. "abc"
JunkStr == [t |-> "str", s |-> "abc"]
EmptyStr == [t |-> "str", s |-> ""]
\* the string "yyyy-mm-dd"
DateStr(y, m, d) == [t |-> "date", y |-> y, m |-> m, d |-> d]
\* the decimal string of the integer n, e.g. "7", "0", "-1"
IntStr(n) == [t |-> "int", v |-> n]

\* ToBoolean: null, NaN, 0 and "" are falsy, everything else is truthy
Truthy(x) ==
  CASE x.t = "null" -> FALSE
    [] x.t = "NaN" -> FALSE
    [] x.t = "num" -> x.v # 0
    [] x.t = "str" -> x.s # ""
    [] OTHER -> TRUE

\* ToNumber for the operands of < and >: null is 0, NaN stays NaN
ToNumber(x) == IF x.t = "null" THEN Num(0) ELSE x

\* a < b and a > b on numbers: false as soon as one operand is NaN
JsLess(a, b) ==
  LET x == ToNumber(a)
      y == ToNumber(b)
  IN x.t = "num" /\ y.t = "num" /\ x.v < y.v

JsGreater(a, b) == JsLess(b, a)

\* parseInt(s, 10) on the strings of the model
parseInt(s) == IF s.t = "int" THEN Num(s.v) ELSE NaN

(***************************************************************************)
(* Calendar: date-fns operations on date-only values.  A Date is modelled  *)
(* by its local calendar day, counted in days since 1970-01-01, or NaN for *)
(* an Invalid Date.                                                        *)
(***************************************************************************)
IsLeapYear(y) == (y % 4 = 0 /\ y % 100 # 0) \/ y % 400 = 0

DaysInMonth(y, m) ==
  IF m = 2 THEN (IF IsLeapYear(y) THEN 29 ELSE 28)
  ELSE IF m \in {4, 6, 9, 11} THEN 30 ELSE 31

\* number of days from 1970-01-01 to the civil date y-m-d
DaysFromCivil(y, m, d) ==
  LET yy == IF m <= 2 THEN y - 1 ELSE y
      era == yy \div 400
      yoe == yy - era * 400
      mp == IF m > 2 THEN m - 3 ELSE m + 9
      doy == (153 * mp + 2) \div 5 + d - 1
      doe == yoe * 365 + yoe \div 4 - yoe \div 100 + doy
  IN era * 146097 + doe - 719468

\* parseISO(null): date-fns 2 returns an Invalid Date, date-fns 3 and later
\* call argument.split and raise a TypeError; the build decides which.
DateFnsVersions == {2, 3}

parseISOThrows(lib, s) == lib >= 3 /\ s.t = "null"

\* parseISO on a value that does not make it throw
parseISO(s) ==
  IF s.t = "date" /\ s.m \in 1..12 /\ s.d \in 1..DaysInMonth(s.y, s.m)
  THEN Num(DaysFromCivil(s.y, s.m, s.d))
  ELSE NaN

isBefore(a, b) == JsLess(a, b)
isAfter(a, b) == JsGreater(a, b)

differenceInCalendarDays(a, b) ==
  IF a.t = "num" /\ b.t = "num" THEN Num(a.v - b.v) ELSE NaN

\* Date.prototype.getDay: 0 = Sunday .. 6 = Saturday (1970-01-01 is a Thursday)
getDay(a) == IF a.t = "num" THEN Num((a.v + 4) % 7) ELSE NaN

\* Date.prototype.getFullYear: the calendar year of the day, NaN for an
\* Invalid Date
getFullYear(a) ==
  IF a.t = "num"
  THEN LET guess == 1970 + a.v \div 366
       IN Num(CHOOSE y \in guess..(guess + 2) :
                DaysFromCivil(y, 1, 1) <= a.v /\ a.v < DaysFromCivil(y + 1, 1, 1))
  ELSE NaN

\* Array.prototype.includes (SameValueZero: NaN is found in a list holding NaN)
includes(arr, x) == \E i \in 1..Len(arr) : arr[i] = x

(***************************************************************************)
(* XML documents.  An element is [tag, text, children]; the text of a leaf *)
(* element is given as textContent.trim() sees it (no surrounding blanks). *)
(* A document text is well formed (it has a root element) or not, and then *)
(* DOMParser returns a document holding a parsererror element.             *)
(***************************************************************************)
Elem(tag, text, children) == [tag |-> tag, text |-> text, children |-> children]

\* the elements below a node, in document order
RECURSIVE descendants(_)
descendants(node) ==
  LET RECURSIVE walk(_)
      walk(i) ==
        IF i > Len(node.children) THEN <<>>
        ELSE <<node.children[i]>> \o descendants(node.children[i]) \o walk(i + 1)
  IN walk(1)

\* Element.getElementsByTagName(tag): the descendants with that tag, in order
getElementsByTagName(node, tag) ==
  SelectSeq(descendants(node), LAMBDA e : e.tag = tag)

\* DOMParser.parseFromString(text, 'application/xml'): the Document node.  Its
\* only child is the root element; for a text that is not well formed the
\* document holds a parsererror element in place of the content.
documentNode(text) ==
  IF text.wellFormed THEN Elem("#document", EmptyStr, <<text.root>>)
  ELSE Elem("#document", EmptyStr, <<Elem("parsererror", JunkStr, <<>>)>>)

\* doc.querySelector(tag): the first element with that name, or null
querySelector(node, tag) ==
  LET els == getElementsByTagName(node, tag)
  IN IF Len(els) > 0 THEN els[1] ELSE Null

(***************************************************************************)
(* src/utils/constants.js                                                  *)
(***************************************************************************)
COLOURS ==
  << "#0072B2", "#D55E00", "#F0E442", "#009E73",
     "#CC79A7", "#56B4E9", "#E69F00", "#8B4513" >>

(***************************************************************************)
(* parseXmlRules                                                           *)
(***************************************************************************)
\* variant: a missing element gives the empty string
getTag_emptyForMissing(node, tag) ==
  LET els == getElementsByTagName(node, tag)
  IN IF Len(els) > 0 THEN els[1].text ELSE EmptyStr

\* variant: the last descendant with that tag wins
getTag_lastMatch(node, tag) ==
  LET els == getElementsByTagName(node, tag)
  IN IF Len(els) > 0 THEN els[Len(els)].text ELSE Null

\* getTag: the trimmed text of the first descendant with that tag, or null
getTag(node, tag) ==
  LET els == getElementsByTagName(node, tag)
  IN IF Len(els) > 0 THEN els[1].text ELSE Null

\* String.prototype.split(','): a comma-separated list gives its items, any
\* other string gives the one-element list holding itself
split(s) == IF s.t = "list" THEN s.items ELSE <<s>>

\* parseFloat on the strings of the model (integral decimals only)
parseFloat(s) == IF s.t = "int" THEN Num(s.v) ELSE NaN

\* variant: the colour is indexed by the id (COLOURS[(idx + 1) % COLOURS.length])
ruleColour_byId(idx) == COLOURS[((idx + 1) % Len(COLOURS)) + 1]

\* COLOURS[idx % COLOURS.length] (sequences are 1-based here)
ruleColour(idx) == COLOURS[(idx % Len(COLOURS)) + 1]

\* the record built for the rule element node at 0-based index idx
ruleRecord(node, idx) ==
  [ id |-> idx + 1,
    from |-> getTag(node, "from"),
    to |-> getTag(node, "to"),
    percentage |->
      IF Truthy(getTag(node, "percentage"))
      THEN parseFloat(getTag(node, "percentage")) ELSE Null,
    arrivalWeekdays |->
      IF Truthy(getTag(node, "arrivalWeekdays"))
      THEN LET parts == split(getTag(node, "arrivalWeekdays"))
           IN [i \in 1..Len(parts) |-> parseInt(parts[i])]
      ELSE <<>>,
    minStay |->
      IF Truthy(getTag(node, "minStay"))
      THEN parseInt(getTag(node, "minStay")) ELSE Null,
    maxStay |->
      IF Truthy(getTag(node, "maxStay"))
      THEN parseInt(getTag(node, "maxStay")) ELSE Null,
    maxDaysToArrival |->
      IF Truthy(getTag(node, "maxDaysToArrival"))
      THEN parseInt(getTag(node, "maxDaysToArrival")) ELSE Null,
    colour |-> ruleColour(idx),
    originalXml |-> node ]

\* variant: only the rule elements that are children of the root element
ruleNodes_rootChildren(text) ==
  SelectSeq(text.root.children, LAMBDA e : e.tag = "rule")

\* the rule elements parseXmlRules maps over: those below the first priceRules
\* element when the document has one, else all those of the document
ruleNodes(text) ==
  LET doc == documentNode(text)
      priceRulesNode == querySelector(doc, "priceRules")
  IN IF priceRulesNode # Null
     THEN getElementsByTagName(priceRulesNode, "rule")
     ELSE getElementsByTagName(doc, "rule")

\* outcome of a call: a returned value or a raised exception
Return(v) == [threw |-> FALSE, value |-> v]
Throw(e) == [threw |-> TRUE, error |-> e]

\* variant: a counter kept between calls numbers the records
parseXmlRules_continuingIds(text) ==
  IF querySelector(documentNode(text), "parsererror") # Null
  THEN Throw("Invalid XML file")
  ELSE LET nodes == ruleNodes(text)
       IN Return([i \in 1..Len(nodes) |->
                    [ruleRecord(nodes[i], i - 1) EXCEPT !.id = i + Len(parseLog)]])

\* variant: the id is the 0-based index (id: idx)
parseXmlRules_zeroBasedId(text) ==
  IF querySelector(documentNode(text), "parsererror") # Null
  THEN Throw("Invalid XML file")
  ELSE LET nodes == ruleNodes(text)
       IN Return([i \in 1..Len(nodes) |->
                    [ruleRecord(nodes[i], i - 1) EXCEPT !.id = i - 1]])

parseXmlRules(text) ==
  IF querySelector(documentNode(text), "parsererror") # Null
  THEN Throw("Invalid XML file")
  ELSE LET nodes == ruleNodes(text)
       IN Return([i \in 1..Len(nodes) |-> ruleRecord(nodes[i], i - 1)])

(***************************************************************************)
(* isBookingAllowedByRule.  lib is the date-fns major version of the build *)
(* (it decides what parseISO(null) does).                                  *)
(***************************************************************************)
\* variant: the upper end of the range is exclusive
dateRangeRejects_exclusiveEnd(rule, startDate) ==
  LET arrival == parseISO(startDate)
      ruleStart == parseISO(rule.from)
      ruleEnd == parseISO(rule.to)
  IN isBefore(arrival, ruleStart) \/ ~isBefore(arrival, ruleEnd)

\* the date-range test of the rule: true when the booking is rejected
dateRangeRejects(rule, startDate) ==
  LET arrival == parseISO(startDate)
      ruleStart == parseISO(rule.from)
      ruleEnd == parseISO(rule.to)
  IN isBefore(arrival, ruleStart) \/ isAfter(arrival, ruleEnd)

stayLengthRejects(rule, length) ==
  \/ Truthy(rule.minStay) /\ JsLess(length, rule.minStay)
  \/ Truthy(rule.maxStay) /\ JsGreater(length, rule.maxStay)

\* variant: a gap equal to maxDaysToArrival is rejected (>= for >)
maxDaysToArrivalRejects_offByOne(rule, startDate, bookingCreationDate) ==
  /\ rule.maxDaysToArrival # Null
  /\ LET diff == differenceInCalendarDays(parseISO(startDate), bookingCreationDate)
     IN ~JsLess(diff, rule.maxDaysToArrival)

\* variant: an arrival before the booking creation date is rejected
maxDaysToArrivalRejects_noPast(rule, startDate, bookingCreationDate) ==
  /\ rule.maxDaysToArrival # Null
  /\ LET diff == differenceInCalendarDays(parseISO(startDate), bookingCreationDate)
     IN JsGreater(diff, rule.maxDaysToArrival) \/ JsLess(diff, Num(0))

maxDaysToArrivalRejects(rule, startDate, bookingCreationDate) ==
  /\ rule.maxDaysToArrival # Null
  /\ LET diff == differenceInCalendarDays(parseISO(startDate), bookingCreationDate)
     IN JsGreater(diff, rule.maxDaysToArrival)

\* variant: the platform weekday is used as is (Sunday stays 0)
arrivalWeekdaysRejects_noSunday(rule, startDate) ==
  /\ Len(rule.arrivalWeekdays) > 0
  /\ LET jsDay == getDay(parseISO(startDate))
     IN ~includes(rule.arrivalWeekdays, jsDay)

arrivalWeekdaysRejects(rule, startDate) ==
  /\ Len(rule.arrivalWeekdays) > 0
  /\ LET jsDay == getDay(parseISO(startDate))
         weekday == IF jsDay = Num(0) THEN Num(7) ELSE jsDay
     IN ~includes(rule.arrivalWeekdays, weekday)

\* variant: a permitted arrival weekday accepts the booking at once, before
\* the other checks
isBookingAllowedByRule_weekdayAccepts(lib, rule, startDate, length, bookingCreationDate) ==
  IF ~Truthy(startDate) \/ ~Truthy(length) THEN Return(FALSE)
  ELSE IF \/ parseISOThrows(lib, startDate)
          \/ parseISOThrows(lib, rule.from)
          \/ parseISOThrows(lib, rule.to)
  THEN Throw("TypeError")
  ELSE IF Len(rule.arrivalWeekdays) > 0 /\ ~arrivalWeekdaysRejects(rule, startDate)
  THEN Return(TRUE)
  ELSE IF dateRangeRejects(rule, startDate) THEN Return(FALSE)
  ELSE IF stayLengthRejects(rule, length) THEN Return(FALSE)
  ELSE IF maxDaysToArrivalRejects(rule, startDate, bookingCreationDate)
  THEN Return(FALSE)
  ELSE IF arrivalWeekdaysRejects(rule, startDate) THEN Return(FALSE)
  ELSE Return(TRUE)

isBookingAllowedByRule(lib, rule, startDate, length, bookingCreationDate) ==
  IF ~Truthy(startDate) \/ ~Truthy(length) THEN Return(FALSE)
  ELSE IF \/ parseISOThrows(lib, startDate)
          \/ parseISOThrows(lib, rule.from)
          \/ parseISOThrows(lib, rule.to)
  THEN Throw("TypeError")
  ELSE IF dateRangeRejects(rule, startDate) THEN Return(FALSE)
  ELSE IF stayLengthRejects(rule, length) THEN Return(FALSE)
  ELSE IF maxDaysToArrivalRejects(rule, startDate, bookingCreationDate)
  THEN Return(FALSE)
  ELSE IF arrivalWeekdaysRejects(rule, startDate) THEN Return(FALSE)
  ELSE Return(TRUE)

(***************************************************************************)
(* App: the highlightedRuleIds memo, and the allowedRules that              *)
(* BookingSelector computes for each entry when it renders.                *)
(***************************************************************************)
\* rules.forEach of highlightedRuleIds, from rule j on, for one entry
RECURSIVE highlightRules(_, _, _, _, _, _)
highlightRules(lib, entry, rs, bDate, j, ids) ==
  IF j > Len(rs) THEN Return(ids)
  ELSE LET r == isBookingAllowedByRule(lib, rs[j], entry.startDate,
                                       parseInt(entry.length), bDate)
       IN IF r.threw THEN r
          ELSE IF r.value /\ ~includes(ids, rs[j].id)
          THEN highlightRules(lib, entry, rs, bDate, j + 1, Append(ids, rs[j].id))
          ELSE highlightRules(lib, entry, rs, bDate, j + 1, ids)

\* variant: an incomplete entry ends the whole loop (break for return)
RECURSIVE highlightEntries_break(_, _, _, _, _, _)
highlightEntries_break(lib, entries, rs, bDate, i, ids) ==
  IF i > Len(entries) THEN Return(ids)
  ELSE IF ~Truthy(entries[i].startDate) \/ ~Truthy(entries[i].length)
  THEN Return(ids)
  ELSE LET r == highlightRules(lib, entries[i], rs, bDate, 1, ids)
       IN IF r.threw THEN r
          ELSE highlightEntries_break(lib, entries, rs, bDate, i + 1, r.value)

\* variant: ids are pushed without the includes test
RECURSIVE highlightEntries_dup(_, _, _, _, _, _)
highlightEntries_dup(lib, entries, rs, bDate, i, ids) ==
  IF i > Len(entries) THEN Return(ids)
  ELSE IF ~Truthy(entries[i].startDate) \/ ~Truthy(entries[i].length)
  THEN highlightEntries_dup(lib, entries, rs, bDate, i + 1, ids)
  ELSE LET r == highlightRules(lib, entries[i], rs, bDate, 1, <<>>)
       IN IF r.threw THEN r
          ELSE highlightEntries_dup(lib, entries, rs, bDate, i + 1, ids \o r.value)

\* bookingEntries.forEach of highlightedRuleIds, from entry i on
RECURSIVE highlightEntries(_, _, _, _, _, _)
highlightEntries(lib, entries, rs, bDate, i, ids) ==
  IF i > Len(entries) THEN Return(ids)
  ELSE IF ~Truthy(entries[i].startDate) \/ ~Truthy(entries[i].length)
  THEN highlightEntries(lib, entries, rs, bDate, i + 1, ids)
  ELSE LET r == highlightRules(lib, entries[i], rs, bDate, 1, ids)
       IN IF r.threw THEN r
          ELSE highlightEntries(lib, entries, rs, bDate, i + 1, r.value)

highlightedRuleIds_break(lib, entries, rs, bDate) ==
  highlightEntries_break(lib, entries, rs, bDate, 1, <<>>)

highlightedRuleIds_dup(lib, entries, rs, bDate) ==
  highlightEntries_dup(lib, entries, rs, bDate, 1, <<>>)

highlightedRuleIds(lib, entries, rs, bDate) ==
  highlightEntries(lib, entries, rs, bDate, 1, <<>>)

\* rules.filter(rule => isBookingAllowedByRule(...)), from rule j on
RECURSIVE filterAllowed(_, _, _, _, _)
filterAllowed(lib, entry, rs, bDate, j) ==
  IF j > Len(rs) THEN Return(<<>>)
  ELSE LET r == isBookingAllowedByRule(lib, rs[j], entry.startDate,
                                       parseInt(entry.length), bDate)
           rest == filterAllowed(lib, entry, rs, bDate, j + 1)
       IN IF r.threw THEN r
          ELSE IF rest.threw THEN rest
          ELSE IF r.value THEN Return(<<rs[j]>> \o rest.value)
          ELSE rest

\* variant: only the first allowed rule is kept (find for filter)
allowedRules_first(lib, entry, rs, bDate) ==
  IF Truthy(entry.startDate) /\ Truthy(entry.length)
  THEN LET r == filterAllowed(lib, entry, rs, bDate, 1)
       IN IF r.threw \/ r.value = <<>> THEN r ELSE Return(<<r.value[1]>>)
  ELSE Return(<<>>)

\* the allowedRules of one entry
allowedRules(lib, entry, rs, bDate) ==
  IF Truthy(entry.startDate) /\ Truthy(entry.length)
  THEN filterAllowed(lib, entry, rs, bDate, 1)
  ELSE Return(<<>>)

\* allowedRules.map(r => r.id), the ids shown for one entry
allowedRuleIds(lib, entry, rs, bDate) ==
  LET r == allowedRules(lib, entry, rs, bDate)
  IN IF r.threw THEN r ELSE Return([k \in 1..Len(r.value) |-> r.value[k].id])

(***************************************************************************)
(* Input domains.  Rule elements are built from field texts; a field that  *)
(* is Absent has no element.  The dates straddle a year boundary: Monday   *)
(* 2024-12-30, Tuesday 2024-12-31, Wednesday 2025-01-01, Thursday          *)
(* 2025-01-02, Saturday 2025-01-11, Sunday 2025-01-12, Monday 2025-01-13.  *)
(***************************************************************************)
MaxStayBound == 2
MaxStayLen == 3

Absent == [t |-> "absent"]
List(items) == [t |-> "list", items |-> items]

field(tag, text) == IF text = Absent THEN <<>> ELSE <<Elem(tag, text, <<>>)>>

RuleElem(from, to, wd, minStay, maxStay, maxDays) ==
  Elem("rule", EmptyStr,
       field("from", from) \o field("to", to)
       \o field("arrivalWeekdays", wd) \o field("minStay", minStay)
       \o field("maxStay", maxStay) \o field("maxDaysToArrival", maxDays))

\* the document <priceRules> rule elements </priceRules>
NestedDoc(elems) == [wellFormed |-> TRUE, root |-> Elem("priceRules", EmptyStr, elems)]

FromTexts == {Absent, JunkStr, DateStr(2024, 12, 31), DateStr(2025, 1, 2)}
ToTexts == {DateStr(2025, 1, 1), DateStr(2025, 1, 12)}
WeekdayTexts == {Absent, List(<<IntStr(6), IntStr(7)>>), IntStr(2)}
StayTexts == {Absent} \cup {IntStr(n) : n \in 0..MaxStayBound}
MaxDaysTexts == {Absent, IntStr(-2), IntStr(0), IntStr(10)}

\* the value of <input type="date">: empty or a valid yyyy-MM-dd string
StartDates ==
  { EmptyStr, DateStr(2024, 12, 30), DateStr(2024, 12, 31), DateStr(2025, 1, 1),
    DateStr(2025, 1, 2), DateStr(2025, 1, 11), DateStr(2025, 1, 12),
    DateStr(2025, 1, 13) }

\* the value of <input type="number">: empty or a decimal string
LengthTexts == {EmptyStr} \cup {IntStr(n) : n \in 0..MaxStayLen}

BookingDates == {parseISO(DateStr(2024, 12, 31)), parseISO(DateStr(2025, 1, 1))}

\* the rules parseXmlRules produces from one-rule documents
EvalRules ==
  { parseXmlRules(NestedDoc(<<RuleElem(f, t, w, mn, mx, md)>>)).value[1] :
      f \in FromTexts, t \in ToTexts, w \in WeekdayTexts,
      mn \in StayTexts, mx \in StayTexts, md \in MaxDaysTexts }

(***************************************************************************)
(* SpecEval: one call of isBookingAllowedByRule on a parsed rule, with the *)
(* arguments BookingSelector passes (entry.startDate, parseInt(entry.      *)
(* length), bookingDate).                                                  *)
(***************************************************************************)
Pending == [pending |-> TRUE]
\* allowed before BookingSelector has rendered (it renders one item per entry,
\* and there is always at least one entry)
NotRendered == <<>>

\* the App as first mounted, nothing rendered yet
Today == parseISO(DateStr(2025, 1, 1))
NoRules == <<>>
InitialEntries == <<[startDate |-> EmptyStr, length |-> EmptyStr]>>

\* a string of the model, e.g. an accommodation code
Str(x) == [t |-> "str", s |-> x]

\* no handleFetchFromAPI call in progress
Idle == [pc |-> "idle"]

\* useState initial values of App (year, viewMode, selectedMonth,
\* searchHistory, saleabilityData); no search performed yet
LoadInit ==
  /\ year = getFullYear(Today)
  /\ viewMode = "year"
  /\ selectedMonth = 0
  /\ searchHistory = <<>>
  /\ saleabilityData = Null
  /\ searchLog = <<>>
  /\ upload = Pending

\* useState initial values of APIConfiguration; no call in progress, no alert
ApiInit ==
  /\ accommodationCode = EmptyStr
  /\ season = EmptyStr
  /\ isLoading = FALSE
  /\ fetchCall = Idle
  /\ alerted = Null
  /\ fetchCount = 0

EvalInit ==
  /\ rules = NoRules
  /\ bookingEntries = InitialEntries
  /\ bookingDate = Today
  /\ highlighted = Pending /\ allowed = NotRendered
  /\ fileText = Pending /\ parsed = Pending /\ parseLog = <<>>
  /\ dateFns \in DateFnsVersions
  /\ LoadInit /\ ApiInit
  /\ evalArgs \in
       [ rule : EvalRules, startDate : StartDates,
         length : {parseInt(l) : l \in LengthTexts},
         bookingCreationDate : BookingDates ]
  /\ evalResult = Pending

Evaluate ==
  /\ evalResult = Pending
  /\ evalResult' = isBookingAllowedByRule(dateFns, evalArgs.rule, evalArgs.startDate,
                                          evalArgs.length, evalArgs.bookingCreationDate)
  /\ UNCHANGED <<navVars, loadVars, apiVars, dateFns, evalArgs, appVars, renderVars, parseVars>>

EvalNext == Evaluate

SpecEval == EvalInit /\ [][EvalNext]_vars

(***************************************************************************)
(* The contract's own reading of dates, used by the properties below: it   *)
(* compares calendar dates field by field and counts days by summing years *)
(* and months, independently of the evaluator's date arithmetic.           *)
(***************************************************************************)
IsDate(s) == s.t = "date"

\* a <= b on calendar dates
DateLeq(a, b) ==
  \/ a.y < b.y
  \/ a.y = b.y /\ a.m < b.m
  \/ a.y = b.y /\ a.m = b.m /\ a.d <= b.d

\* leap years in 1..y
LeapsUpTo(y) == y \div 4 - y \div 100 + y \div 400

RECURSIVE DaysBeforeMonth(_, _)
DaysBeforeMonth(y, m) ==
  IF m = 1 THEN 0 ELSE DaysBeforeMonth(y, m - 1) + DaysInMonth(y, m - 1)

\* days from 1970-01-01 to the date
DayNumber(s) ==
  365 * (s.y - 1970) + (LeapsUpTo(s.y - 1) - LeapsUpTo(1969))
  + DaysBeforeMonth(s.y, s.m) + (s.d - 1)

\* Monday = 1 .. Sunday = 7 (1970-01-01 is a Thursday)
RuleWeekday(s) == ((DayNumber(s) + 3) % 7) + 1

(***************************************************************************)
(* Properties of isBookingAllowedByRule (SpecEval)                         *)
(***************************************************************************)
EvalDone == evalResult # Pending
Matched == evalResult = Return(TRUE)
NotMatched == evalResult = Return(FALSE)

\* the booking is complete: arrival date present, stay length a non-zero number
PresenceOk ==
  /\ evalArgs.startDate # EmptyStr
  /\ evalArgs.length.t = "num" /\ evalArgs.length.v # 0

\* a bound counts as set when the parser produced a number for it
IsSet(x) == x.t = "num"

\* calendarDaysBetween(referenceDate, arrivalDate)
Gap == DayNumber(evalArgs.startDate) - evalArgs.bookingCreationDate.v

DateRangeOk ==
  /\ IsDate(evalArgs.rule.from) /\ IsDate(evalArgs.rule.to)
  /\ DateLeq(evalArgs.rule.from, evalArgs.startDate)
  /\ DateLeq(evalArgs.startDate, evalArgs.rule.to)

StayLengthOk ==
  /\ IsSet(evalArgs.rule.minStay) => evalArgs.length.v >= evalArgs.rule.minStay.v
  /\ IsSet(evalArgs.rule.maxStay) => evalArgs.length.v <= evalArgs.rule.maxStay.v

BookingWindowOk ==
  IsSet(evalArgs.rule.maxDaysToArrival) => Gap <= evalArgs.rule.maxDaysToArrival.v

WeekdayOk ==
  Len(evalArgs.rule.arrivalWeekdays) > 0 =>
    includes(evalArgs.rule.arrivalWeekdays, Num(RuleWeekday(evalArgs.startDate)))

\* C1: isBookingAllowedByRule returns true if and only if the presence, date
\* range, stay length, booking window and weekday checks all pass, and returns
\* false otherwise.
C1_AllFiveChecks ==
  EvalDone =>
    IF PresenceOk /\ DateRangeOk /\ StayLengthOk /\ BookingWindowOk /\ WeekdayOk
    THEN Matched ELSE NotMatched

NoOtherRestriction ==
  /\ evalArgs.rule.minStay = Null /\ evalArgs.rule.maxStay = Null
  /\ evalArgs.rule.maxDaysToArrival = Null
  /\ evalArgs.rule.arrivalWeekdays = <<>>

RuleDatesPresent == IsDate(evalArgs.rule.from) /\ IsDate(evalArgs.rule.to)

\* C2: for a rule with no other restriction and a complete booking, the
\* booking matches exactly when validFrom <= arrival <= validTo; arrival equal
\* to validFrom or to validTo matches (the range being non-empty), arrival one
\* day before validFrom or one day after validTo does not.
C2_DateRangeInclusive ==
  (EvalDone /\ PresenceOk /\ NoOtherRestriction /\ RuleDatesPresent) =>
    LET from == evalArgs.rule.from
        to == evalArgs.rule.to
        arrival == evalArgs.startDate
    IN /\ Matched <=> (DateLeq(from, arrival) /\ DateLeq(arrival, to))
       /\ (arrival = from /\ DateLeq(from, to)) => Matched
       /\ DayNumber(arrival) = DayNumber(from) - 1 => NotMatched
       /\ (arrival = to /\ DateLeq(from, to)) => Matched
       /\ DayNumber(arrival) = DayNumber(to) + 1 => NotMatched

C2_Witness ==
  /\ EvalDone /\ PresenceOk /\ NoOtherRestriction /\ RuleDatesPresent
  /\ evalArgs.startDate = evalArgs.rule.to
  /\ evalArgs.startDate # evalArgs.rule.from
  /\ Matched

\* C3: when the other checks pass, the booking matches exactly when its stay
\* length is within the bounds that are set, both inclusive: stayLength <
\* minStay fails, stayLength > maxStay fails, equality passes, an absent bound
\* does not constrain.
C3_StayBoundsInclusive ==
  (EvalDone /\ PresenceOk /\ DateRangeOk /\ BookingWindowOk /\ WeekdayOk) =>
    (Matched <=> StayLengthOk)

\* C4: for maxDaysToArrival set to M >= 0 and no other failing constraint, a
\* booking with gap >= 0 matches if and only if gap <= M.
C4_MaxDaysToArrivalBoundary ==
  ( /\ EvalDone /\ PresenceOk /\ DateRangeOk /\ StayLengthOk /\ WeekdayOk
    /\ IsSet(evalArgs.rule.maxDaysToArrival)
    /\ evalArgs.rule.maxDaysToArrival.v >= 0
    /\ Gap >= 0 ) =>
    (Matched <=> Gap <= evalArgs.rule.maxDaysToArrival.v)

\* reference 2025-01-01 (day 20089), M = 10, arrival 2025-01-11: a match
C4_Witness ==
  /\ EvalDone
  /\ evalArgs.rule.maxDaysToArrival = Num(10)
  /\ evalArgs.bookingCreationDate = Num(DayNumber(DateStr(2025, 1, 1)))
  /\ evalArgs.startDate = DateStr(2025, 1, 11)
  /\ Matched

\* the outcome for the same rule with maxDaysToArrival absent
OutcomeWithoutMaxDays ==
  isBookingAllowedByRule(dateFns, [evalArgs.rule EXCEPT !.maxDaysToArrival = Null],
                         evalArgs.startDate, evalArgs.length,
                         evalArgs.bookingCreationDate)

\* C5 (as stated): for every rule with maxDaysToArrival set and every booking
\* with a negative gap, the verdict is that of the same rule with
\* maxDaysToArrival absent.
C5_NegativeGapNeverRejected ==
  ( /\ EvalDone /\ PresenceOk
    /\ evalArgs.rule.maxDaysToArrival # Null
    /\ Gap < 0 ) =>
    evalResult = OutcomeWithoutMaxDays

\* C5 (amended): for every rule with maxDaysToArrival set to a non-negative
\* integer and every booking with a negative gap, the verdict is that of the
\* same rule with maxDaysToArrival absent.
C5_NegativeGapNonNegativeMax ==
  ( /\ EvalDone /\ PresenceOk
    /\ IsSet(evalArgs.rule.maxDaysToArrival)
    /\ evalArgs.rule.maxDaysToArrival.v >= 0
    /\ Gap < 0 ) =>
    evalResult = OutcomeWithoutMaxDays

C5_Witness ==
  /\ EvalDone /\ PresenceOk
  /\ IsSet(evalArgs.rule.maxDaysToArrival)
  /\ evalArgs.rule.maxDaysToArrival.v >= 0
  /\ Gap < 0
  /\ Matched

\* C6: a rule with a non-empty arrivalWeekdays matches only if the arrival
\* weekday, in the convention Monday = 1 .. Sunday = 7, is a member; when the
\* other checks pass the booking matches exactly when the weekday check does
\* (an empty arrivalWeekdays always passes); a rule with arrivalWeekdays
\* {6, 7} never matches a Tuesday arrival.
C6_WeekdayCheck ==
  EvalDone =>
    /\ (Matched /\ Len(evalArgs.rule.arrivalWeekdays) > 0) =>
         includes(evalArgs.rule.arrivalWeekdays, Num(RuleWeekday(evalArgs.startDate)))
    /\ (PresenceOk /\ DateRangeOk /\ StayLengthOk /\ BookingWindowOk) =>
         (Matched <=> WeekdayOk)
    /\ ( /\ evalArgs.rule.arrivalWeekdays = <<Num(6), Num(7)>>
         /\ IsDate(evalArgs.startDate)
         /\ RuleWeekday(evalArgs.startDate) = 2 ) => ~Matched

\* Sunday 2025-01-12 is allowed by a rule restricted to Saturday and Sunday
C6_Witness ==
  /\ EvalDone
  /\ evalArgs.rule.arrivalWeekdays = <<Num(6), Num(7)>>
  /\ evalArgs.startDate = DateStr(2025, 1, 12)
  /\ Matched

(***************************************************************************)
(* SpecHighlight: one render of the App on a loaded rule set and a list of *)
(* booking test entries: the highlightedRuleIds memo is computed in the    *)
(* App body, then BookingSelector computes the allowedRules of each entry. *)
(***************************************************************************)
MaxRules == 3
MaxEntries == 2

\* rule 1 of the examples: 2024-12-31..2025-01-01, at most 1 night
RuleA == RuleElem(DateStr(2024, 12, 31), DateStr(2025, 1, 1), Absent,
                  Absent, IntStr(1), Absent)
\* 2024-12-31..2025-01-12, booked at most 1 day ahead
RuleB == RuleElem(DateStr(2024, 12, 31), DateStr(2025, 1, 12), Absent,
                  Absent, Absent, IntStr(1))
\* 2025-01-02..2025-01-12, at least 2 nights
RuleC == RuleElem(DateStr(2025, 1, 2), DateStr(2025, 1, 12), Absent,
                  IntStr(2), Absent, Absent)
\* no <from> element, Tuesday arrivals only
RuleD == RuleElem(Absent, DateStr(2025, 1, 12), IntStr(2), Absent, Absent, Absent)

HighlightRuleElems == {RuleA, RuleB, RuleC, RuleD}

SeqsUpTo(S, n) == UNION {[1..k -> S] : k \in 0..n}

\* sequences without repetition
DistinctSeqsUpTo(S, n) ==
  {q \in SeqsUpTo(S, n) : \A i, j \in 1..Len(q) : q[i] = q[j] => i = j}

\* the rule sets parseXmlRules produces from documents of up to MaxRules
\* different rule elements, in any order
HighlightRuleSets ==
  { parseXmlRules(NestedDoc(es)).value :
      es \in DistinctSeqsUpTo(HighlightRuleElems, MaxRules) }

Entry(startDate, length) == [startDate |-> startDate, length |-> length]

EntryValues ==
  { Entry(EmptyStr, EmptyStr),
    Entry(DateStr(2024, 12, 31), EmptyStr),
    Entry(DateStr(2024, 12, 31), IntStr(0)),
    Entry(DateStr(2024, 12, 31), IntStr(1)),
    Entry(DateStr(2025, 1, 2), IntStr(1)),
    Entry(DateStr(2025, 1, 2), IntStr(2)) }

HighlightInit ==
  /\ dateFns \in DateFnsVersions
  /\ LoadInit /\ ApiInit
  /\ evalArgs = Pending /\ evalResult = Pending
  /\ rules \in HighlightRuleSets
  /\ bookingEntries \in SeqsUpTo(EntryValues, MaxEntries) \ {<<>>}
  /\ bookingDate \in BookingDates
  /\ highlighted = Pending /\ allowed = NotRendered
  /\ fileText = Pending /\ parsed = Pending /\ parseLog = <<>>

\* variant: the evaluation stores a default into the rules it reads
\* (rule.minStay = rule.minStay || 1)
ComputeHighlighted_defaultsMinStay ==
  /\ highlighted = Pending
  /\ highlighted' = highlightedRuleIds(dateFns, bookingEntries, rules, bookingDate)
  /\ rules' = [j \in 1..Len(rules) |->
                 [rules[j] EXCEPT !.minStay = IF Truthy(@) THEN @ ELSE Num(1)]]
  /\ UNCHANGED <<navVars, loadVars, apiVars, dateFns, evalVars, bookingEntries, bookingDate, allowed, parseVars>>

\* App body: the useMemo of highlightedRuleIds
ComputeHighlighted ==
  /\ highlighted = Pending
  /\ highlighted' = highlightedRuleIds(dateFns, bookingEntries, rules, bookingDate)
  /\ UNCHANGED <<navVars, loadVars, apiVars, dateFns, evalVars, appVars, allowed, parseVars>>

\* format(date, 'yyyy-MM-dd') raises a RangeError on an Invalid Date
formatThrows(date) == date = NaN

\* BookingSelector renders once the App body has returned; it formats the
\* booking creation date before it maps over the entries, so that an Invalid
\* Date leaves every entry without result
RenderBookingSelector ==
  /\ highlighted # Pending /\ ~highlighted.threw
  /\ allowed = NotRendered
  /\ allowed' = [i \in 1..Len(bookingEntries) |->
                   IF formatThrows(bookingDate) THEN Throw("RangeError")
                   ELSE allowedRuleIds(dateFns, bookingEntries[i], rules, bookingDate)]
  /\ UNCHANGED <<navVars, loadVars, apiVars, dateFns, evalVars, appVars, highlighted, parseVars>>

HighlightNext == ComputeHighlighted \/ RenderBookingSelector

SpecHighlight == HighlightInit /\ [][HighlightNext]_vars

(***************************************************************************)
(* Properties of the batch query and of the aggregation (SpecHighlight)    *)
(***************************************************************************)
HighlightDone == highlighted # Pending
Rendered == allowed # NotRendered

\* an entry without arrival date, or whose stay length is absent or zero
Incomplete(e) ==
  e.startDate = EmptyStr \/ e.length = EmptyStr \/ e.length = IntStr(0)

\* the single-rule verdict for entry i and rule j
Verdict(i, j) ==
  isBookingAllowedByRule(dateFns, rules[j], bookingEntries[i].startDate,
                         parseInt(bookingEntries[i].length), bookingDate)

\* C7: an incomplete booking is a non-match, not an error: for every rule the
\* verdict on an incomplete entry is a returned false, and the aggregation
\* gives what it gives on the list without the incomplete entries.
C7_IncompleteBookingIsNoMatch ==
  HighlightDone =>
    /\ \A i \in 1..Len(bookingEntries) :
         Incomplete(bookingEntries[i]) =>
           \A j \in 1..Len(rules) : Verdict(i, j) = Return(FALSE)
    /\ highlighted =
         highlightedRuleIds(dateFns,
                            SelectSeq(bookingEntries, LAMBDA e : ~Incomplete(e)),
                            rules, bookingDate)

\* an incomplete entry before a complete one that matches, with a rule lacking
\* its <from> date in the set
C7_Witness ==
  /\ HighlightDone /\ ~highlighted.threw
  /\ Len(bookingEntries) = 2
  /\ Incomplete(bookingEntries[1])
  /\ highlighted.value # <<>>
  /\ \E j \in 1..Len(rules) : rules[j].from = Null

\* the positions of the rules that match entry i
MatchingRules(i) == {j \in 1..Len(rules) : Verdict(i, j) = Return(TRUE)}

\* the k-th smallest element of a set of positions
KthOf(S, k) == CHOOSE j \in S : Cardinality({x \in S : x < j}) = k - 1

\* C8: the batch query for one booking returns exactly the ids of the rules
\* whose single-rule match is true, each once, in rule-set order.
C8_BatchQuery ==
  Rendered =>
    \A i \in 1..Len(bookingEntries) :
      ~allowed[i].threw =>
        LET ids == allowed[i].value
        IN /\ Len(ids) = Cardinality(MatchingRules(i))
           /\ \A k \in 1..Len(ids) : ids[k] = rules[KthOf(MatchingRules(i), k)].id

\* a booking allowed by two rules of three
C8_Witness ==
  /\ Rendered
  /\ Len(rules) = 3
  /\ \E i \in 1..Len(bookingEntries) :
       ~allowed[i].threw /\ Len(allowed[i].value) = 2

\* the first occurrences of a list, in order
RECURSIVE Dedup(_)
Dedup(q) ==
  IF q = <<>> THEN <<>>
  ELSE LET front == Dedup(SubSeq(q, 1, Len(q) - 1))
           last == q[Len(q)]
       IN IF includes(front, last) THEN front ELSE Append(front, last)

\* the per-entry batch results, one after the other
RECURSIVE ConcatAllowed(_)
ConcatAllowed(n) ==
  IF n = 0 THEN <<>> ELSE ConcatAllowed(n - 1) \o allowed[n].value

\* C9: the aggregate list holds a rule id if and only if that rule matches one
\* of the bookings, holds no id twice, and is the deduplicated concatenation
\* (first occurrence order) of the per-booking batch results.
C9_UnionAggregation ==
  (Rendered /\ \A i \in 1..Len(bookingEntries) : ~allowed[i].threw) =>
    LET ids == highlighted.value
    IN /\ \A j \in 1..Len(rules) :
            includes(ids, rules[j].id) <=>
              \E i \in 1..Len(bookingEntries) : j \in MatchingRules(i)
       /\ \A a, b \in 1..Len(ids) : ids[a] = ids[b] => a = b
       /\ ids = Dedup(ConcatAllowed(Len(bookingEntries)))

\* bookings matching {1,2} and {2,3} aggregate to [1,2,3]
C9_Witness ==
  /\ Rendered
  /\ Len(bookingEntries) = 2
  /\ allowed[1] = Return(<<1, 2>>)
  /\ allowed[2] = Return(<<2, 3>>)
  /\ highlighted = Return(<<1, 2, 3>>)

(***************************************************************************)
(* SpecParse: one call of parseXmlRules on a document.  A document is not  *)
(* well formed, or its root element holds, in any order, rule elements and *)
(* priceRules containers of rule elements.                                 *)
(***************************************************************************)
MaxTopLevel == 2
MaxNested == 2
\* the longest document: more than twice the palette
MaxDocRules == 17

\* a rule with every field, and a rule element with no field at all
FullRule ==
  Elem("rule", EmptyStr,
       field("percentage", IntStr(15))
       \o RuleElem(DateStr(2025, 1, 1), DateStr(2025, 1, 12),
                   List(<<IntStr(6), IntStr(7)>>), IntStr(1), IntStr(2),
                   IntStr(10)).children)
EmptyRule == RuleElem(Absent, Absent, Absent, Absent, Absent, Absent)

ParseRuleElems == {FullRule, EmptyRule}

Containers ==
  {Elem("priceRules", EmptyStr, es) : es \in SeqsUpTo(ParseRuleElems, MaxNested)}

\* rule elements lacking any subset of the seven fields
PartialRules ==
  { Elem("rule", EmptyStr,
         field("percentage", pct) \o RuleElem(f, t, w, mn, mx, md).children) :
      pct \in {Absent, IntStr(15)}, f \in {Absent, DateStr(2025, 1, 1)},
      t \in {Absent, DateStr(2025, 1, 12)}, w \in {Absent, IntStr(2)},
      mn \in {Absent, IntStr(1)}, mx \in {Absent, IntStr(2)},
      md \in {Absent, IntStr(10)} }

\* a partial rule element alone, and followed by a full one
PartialDocs ==
  {NestedDoc(<<r>>) : r \in PartialRules}
  \cup {NestedDoc(<<r, FullRule>>) : r \in PartialRules}

\* longer rule lists: full and empty rule elements in turn
LongDocs ==
  { NestedDoc([i \in 1..n |-> IF i % 2 = 1 THEN FullRule ELSE EmptyRule]) :
      n \in (MaxNested + 1)..MaxDocRules }

\* well-formed documents that hold an element named parsererror
ParsererrorDocs ==
  { [wellFormed |-> TRUE,
     root |-> Elem("response", EmptyStr, <<FullRule, Elem("parsererror", EmptyStr, <<>>)>>)],
    [wellFormed |-> TRUE,
     root |-> Elem("priceRules", EmptyStr,
                   <<Elem("rule", EmptyStr, <<Elem("parsererror", JunkStr, <<>>)>>)>>)] }

\* the seven field tags, and for each a text other than the one of FullRule
FieldTags ==
  {"from", "to", "percentage", "arrivalWeekdays", "minStay", "maxStay",
   "maxDaysToArrival"}
OtherText(tag) ==
  CASE tag = "from" -> DateStr(2024, 12, 31)
    [] tag = "to" -> DateStr(2025, 1, 2)
    [] tag = "percentage" -> IntStr(20)
    [] tag = "arrivalWeekdays" -> IntStr(2)
    [] tag = "minStay" -> IntStr(2)
    [] tag = "maxStay" -> IntStr(0)
    [] tag = "maxDaysToArrival" -> IntStr(-2)

\* rule elements holding one field tag twice: the second occurrence after or
\* before the fields of FullRule, with another or an empty text, as a child
\* or below another child
DuplicateRules ==
  UNION { { Elem("rule", EmptyStr,
                 FullRule.children \o <<Elem(tag, OtherText(tag), <<>>)>>),
            Elem("rule", EmptyStr,
                 <<Elem(tag, OtherText(tag), <<>>)>> \o FullRule.children),
            Elem("rule", EmptyStr,
                 <<Elem(tag, EmptyStr, <<>>)>> \o FullRule.children),
            Elem("rule", EmptyStr,
                 <<Elem("conditions", EmptyStr, <<Elem(tag, OtherText(tag), <<>>)>>)>>
                 \o FullRule.children) } : tag \in FieldTags }

DuplicateDocs ==
  {NestedDoc(<<r>>) : r \in DuplicateRules}
  \cup {NestedDoc(<<EmptyRule, r>>) : r \in DuplicateRules}

ParseDocs ==
  { [wellFormed |-> TRUE, root |-> Elem("response", EmptyStr, items)] :
      items \in SeqsUpTo(ParseRuleElems \cup Containers, MaxTopLevel) }
  \cup { [wellFormed |-> FALSE, root |-> Elem("response", EmptyStr, <<>>)] }
  \cup LongDocs \cup ParsererrorDocs \cup PartialDocs \cup DuplicateDocs

ParseInit ==
  /\ dateFns \in DateFnsVersions
  /\ LoadInit /\ ApiInit
  /\ evalArgs = Pending /\ evalResult = Pending
  /\ rules = NoRules
  /\ bookingEntries = InitialEntries
  /\ bookingDate = Today
  /\ highlighted = Pending /\ allowed = NotRendered
  /\ fileText \in ParseDocs
  /\ parsed = Pending /\ parseLog = <<>>

Parse ==
  /\ parsed = Pending
  /\ parsed' = parseXmlRules(fileText)
  /\ parseLog' = Append(parseLog, [text |-> fileText, outcome |-> parsed'])
  /\ UNCHANGED <<navVars, loadVars, apiVars, dateFns, evalVars, appVars, renderVars, fileText>>

ParseNext == Parse

SpecParse == ParseInit /\ [][ParseNext]_vars

(***************************************************************************)
(* Properties of parseXmlRules (SpecParse)                                 *)
(***************************************************************************)
ParseReturned == parsed # Pending /\ ~parsed.threw

\* the elements with the tag below a node, in document order
RECURSIVE ElementsInOrder(_, _)
ElementsInOrder(node, tag) ==
  LET RECURSIVE from(_)
      from(i) ==
        IF i > Len(node.children) THEN <<>>
        ELSE (IF node.children[i].tag = tag THEN <<node.children[i]>> ELSE <<>>)
             \o ElementsInOrder(node.children[i], tag) \o from(i + 1)
  IN from(1)

\* the number of elements with the tag below a node
RECURSIVE CountElements(_, _)
CountElements(node, tag) ==
  LET RECURSIVE sum(_)
      sum(i) ==
        IF i = 0 THEN 0
        ELSE sum(i - 1) + (IF node.children[i].tag = tag THEN 1 ELSE 0)
             + CountElements(node.children[i], tag)
  IN sum(Len(node.children))

\* the rule elements of the document, in document order
DocRuleElements == ElementsInOrder(fileText.root, "rule")

\* the rule elements in the scope of the parse: those below the first
\* priceRules element when the document has one, else all of them
ScopeRuleElements ==
  IF CountElements(fileText.root, "priceRules") > 0
  THEN ElementsInOrder(ElementsInOrder(fileText.root, "priceRules")[1], "rule")
  ELSE DocRuleElements

\* C10 (as stated): parsing a document that contains N rule elements yields
\* exactly N records, in document order, the k-th with id k.
C10_OneRecordPerRuleElement ==
  ParseReturned =>
    /\ Len(parsed.value) = CountElements(fileText.root, "rule")
    /\ \A k \in 1..Len(parsed.value) :
         parsed.value[k].id = k /\ parsed.value[k].originalXml = DocRuleElements[k]

\* C10 (amended): parsing yields exactly one record per rule element in the
\* scope of the parse (the rule elements below the first priceRules element
\* when the document has one, else all rule elements), in document order, the
\* k-th with id k; when every rule element of the document is in that scope
\* the records are as many as the rule elements of the document.
C10_OneRecordPerRuleElementInScope ==
  ParseReturned =>
    /\ Len(parsed.value) = Len(ScopeRuleElements)
    /\ \A k \in 1..Len(parsed.value) :
         parsed.value[k].id = k /\ parsed.value[k].originalXml = ScopeRuleElements[k]
    /\ ScopeRuleElements = DocRuleElements =>
         Len(parsed.value) = CountElements(fileText.root, "rule")

\* two different rule elements below a container, parsed in document order
C10_Witness ==
  /\ ParseReturned
  /\ fileText.root.children = <<Elem("priceRules", EmptyStr, <<EmptyRule, FullRule>>)>>
  /\ Len(parsed.value) = 2
  /\ parsed.value[2].id = 2 /\ parsed.value[2].originalXml = FullRule

\* the palette of the contract, indexed from 0
PaletteSize == Len(COLOURS)
Palette(k) == COLOURS[k + 1]

\* C11: every record returned by one parse call has the colour
\* palette[(id-1) mod P] with P = 8, the size of the palette: the rule at
\* 0-based index k has palette[k mod P], and rules k and k+P share a colour.
C11_ColourCycling ==
  ParseReturned =>
    /\ PaletteSize = 8
    /\ \A i \in 1..Len(parsed.value) :
         /\ parsed.value[i].colour = Palette((parsed.value[i].id - 1) % PaletteSize)
         /\ parsed.value[i].colour = Palette((i - 1) % PaletteSize)
         /\ i + PaletteSize <= Len(parsed.value) =>
              parsed.value[i + PaletteSize].colour = parsed.value[i].colour

\* a document of more than two palettes: rules 1, 9 and 17 share the first
\* colour, rule 8 has the last one
C11_Witness ==
  /\ ParseReturned
  /\ Len(parsed.value) >= 2 * PaletteSize + 1
  /\ parsed.value[1].colour = "#0072B2"
  /\ parsed.value[PaletteSize].colour = "#8B4513"
  /\ parsed.value[PaletteSize + 1].colour = "#0072B2"
  /\ parsed.value[2 * PaletteSize + 1].colour = "#0072B2"

\* a bare collection: a root element whose children are rule elements
IsBare(text) ==
  /\ text.wellFormed
  /\ text.root.tag # "priceRules"
  /\ \A i \in 1..Len(text.root.children) : text.root.children[i].tag = "rule"

\* the same rule elements, nested under a priceRules container
NestedForm(text) ==
  [ wellFormed |-> TRUE,
    root |-> Elem(text.root.tag, EmptyStr,
                  <<Elem("priceRules", EmptyStr, text.root.children)>>) ]

\* C12: parsing a bare collection of rule elements and parsing the same rule
\* elements nested under a priceRules container give the same sequence of
\* records: same count, same order, same field values and ids.
C12_BareAndNestedAgree ==
  (ParseReturned /\ IsBare(fileText)) =>
    /\ parsed = parseXmlRules(NestedForm(fileText))
    /\ parsed = parseXmlRules(NestedDoc(fileText.root.children))

\* a bare collection of two different rule elements
C12_Witness ==
  /\ ParseReturned /\ IsBare(fileText)
  /\ Len(parsed.value) = 2
  /\ parsed.value[1].originalXml = FullRule
  /\ parsed.value[2].originalXml = EmptyRule
  /\ NestedForm(fileText) \in ParseDocs

\* C13: when the document is not well-formed markup the parse fails with an
\* error and returns no record at all; when it is well formed the parse does
\* not fail.
C13_FailsExactlyOnMalformedInput ==
  parsed # Pending =>
    /\ ~fileText.wellFormed =>
         (parsed.threw /\ "value" \notin DOMAIN parsed)
    /\ fileText.wellFormed => ~parsed.threw

\* the rule element has no element with that tag
Missing(node, tag) == CountElements(node, tag) = 0

\* C14: a rule element with missing fields does not make the parse fail: a
\* missing percentage, minStay, maxStay or maxDaysToArrival becomes null, a
\* missing arrivalWeekdays the empty list, a missing from or to null, and the
\* record is emitted with its id and colour, every rule keeping its position.
C14_MissingFieldsAreAbsent ==
  ( /\ parsed # Pending /\ fileText.wellFormed
    /\ CountElements(fileText.root, "parsererror") = 0 ) =>
    /\ ~parsed.threw
    /\ Len(parsed.value) = Len(ScopeRuleElements)
    /\ \A k \in 1..Len(ScopeRuleElements) :
         LET node == ScopeRuleElements[k]
             r == parsed.value[k]
         IN /\ Missing(node, "percentage") => r.percentage = Null
            /\ Missing(node, "minStay") => r.minStay = Null
            /\ Missing(node, "maxStay") => r.maxStay = Null
            /\ Missing(node, "maxDaysToArrival") => r.maxDaysToArrival = Null
            /\ Missing(node, "arrivalWeekdays") => r.arrivalWeekdays = <<>>
            /\ Missing(node, "from") => r.from = Null
            /\ Missing(node, "to") => r.to = Null
            /\ r.id = k
            /\ r.colour = Palette((k - 1) % PaletteSize)
            /\ r.originalXml = node

\* a rule element with only maxStay and to, followed by a full rule element
C14_Witness ==
  /\ ParseReturned
  /\ Len(parsed.value) = 2
  /\ parsed.value[1].from = Null /\ parsed.value[1].to = DateStr(2025, 1, 12)
  /\ parsed.value[1].percentage = Null /\ parsed.value[1].minStay = Null
  /\ parsed.value[1].maxStay = Num(2) /\ parsed.value[1].maxDaysToArrival = Null
  /\ parsed.value[1].arrivalWeekdays = <<>>
  /\ parsed.value[2].id = 2 /\ parsed.value[2].percentage = Num(15)
  /\ parsed.value[2].from = DateStr(2025, 1, 1)

(***************************************************************************)
(* SpecReparse: parseXmlRules called again and again, on documents taken   *)
(* in any order (a file upload after another).                             *)
(***************************************************************************)
MaxParses == 3

ReparseDocs ==
  { NestedDoc(<<FullRule, EmptyRule>>),
    [wellFormed |-> TRUE, root |-> Elem("response", EmptyStr, <<EmptyRule>>)],
    NestedDoc(<<>>),
    [wellFormed |-> FALSE, root |-> Elem("response", EmptyStr, <<>>)] }

ReparseInit ==
  /\ dateFns \in DateFnsVersions
  /\ LoadInit /\ ApiInit
  /\ evalArgs = Pending /\ evalResult = Pending
  /\ rules = NoRules
  /\ bookingEntries = InitialEntries
  /\ bookingDate = Today
  /\ highlighted = Pending /\ allowed = NotRendered
  /\ fileText = Pending /\ parsed = Pending /\ parseLog = <<>>

ParseAgain ==
  /\ Len(parseLog) < MaxParses
  /\ \E d \in ReparseDocs :
       /\ fileText' = d
       /\ parsed' = parseXmlRules(d)
       /\ parseLog' = Append(parseLog, [text |-> d, outcome |-> parsed'])
  /\ UNCHANGED <<navVars, loadVars, apiVars, dateFns, evalVars, appVars, renderVars>>

ReparseNext == ParseAgain

SpecReparse == ReparseInit /\ [][ReparseNext]_vars

MaxSessionEntries == 3

SessionDocs ==
  {NestedDoc(<<RuleA, RuleB, RuleC>>), NestedDoc(<<RuleD, RuleA>>)}

\* values typed into the inputs of BookingSelector
SessionStartDates == {EmptyStr, DateStr(2024, 12, 31), DateStr(2025, 1, 2)}
SessionLengths == {EmptyStr, IntStr(1), IntStr(2)}
SessionBookingDates == {EmptyStr, DateStr(2024, 12, 31), DateStr(2025, 1, 1)}

SessionInit ==
  /\ dateFns \in DateFnsVersions
  /\ LoadInit /\ ApiInit
  /\ evalArgs = Pending /\ evalResult = Pending
  /\ fileText \in SessionDocs
  /\ parsed = parseXmlRules(fileText)
  /\ parseLog = <<[text |-> fileText, outcome |-> parsed]>>
  /\ rules = parsed.value
  /\ bookingEntries = InitialEntries
  /\ bookingDate = Today
  /\ highlighted = Pending /\ allowed = NotRendered

\* BookingSelector is on screen: the last render went through
UiShown ==
  /\ allowed # NotRendered
  /\ \A i \in 1..Len(allowed) : ~allowed[i].threw

\* a state change schedules a render
Rerender == highlighted' = Pending /\ allowed' = NotRendered

updateEntry(index, fld, value) ==
  /\ UiShown
  /\ bookingEntries' =
       [i \in 1..Len(bookingEntries) |->
          IF i = index THEN [bookingEntries[i] EXCEPT ![fld] = value]
          ELSE bookingEntries[i]]
  /\ Rerender
  /\ UNCHANGED <<navVars, loadVars, apiVars, dateFns, evalVars, rules, bookingDate, parseVars>>

addEntry ==
  /\ UiShown
  /\ Len(bookingEntries) < MaxSessionEntries
  /\ bookingEntries' = bookingEntries \o <<[startDate |-> EmptyStr, length |-> EmptyStr]>>
  /\ Rerender
  /\ UNCHANGED <<navVars, loadVars, apiVars, dateFns, evalVars, rules, bookingDate, parseVars>>

\* variant: removing an entry also removes the entries after it
removeEntry_truncate(index) ==
  /\ UiShown
  /\ Len(bookingEntries) # 1
  /\ bookingEntries' = SubSeq(bookingEntries, 1, index - 1)
  /\ Rerender
  /\ UNCHANGED <<navVars, loadVars, apiVars, dateFns, evalVars, rules, bookingDate, parseVars>>

\* the Remove button is disabled while there is one entry
removeEntry(index) ==
  /\ UiShown
  /\ Len(bookingEntries) # 1
  /\ bookingEntries' =
       [i \in 1..(Len(bookingEntries) - 1) |->
          IF i < index THEN bookingEntries[i] ELSE bookingEntries[i + 1]]
  /\ Rerender
  /\ UNCHANGED <<navVars, loadVars, apiVars, dateFns, evalVars, rules, bookingDate, parseVars>>

\* onChange of the booking creation date input: setBookingDate(parseISO(value))
onBookingDateChange(value) ==
  /\ UiShown
  /\ bookingDate' = parseISO(value)
  /\ Rerender
  /\ UNCHANGED <<navVars, loadVars, apiVars, dateFns, evalVars, rules, bookingEntries, parseVars>>

SessionNext ==
  \/ ComputeHighlighted
  \/ RenderBookingSelector
  \/ \E index \in 1..Len(bookingEntries), value \in SessionStartDates :
       updateEntry(index, "startDate", value)
  \/ \E index \in 1..Len(bookingEntries), value \in SessionLengths :
       updateEntry(index, "length", value)
  \/ \E index \in 1..Len(bookingEntries) : removeEntry(index)
  \/ addEntry
  \/ \E value \in SessionBookingDates : onBookingDateChange(value)

SpecSession == SessionInit /\ [][SessionNext]_vars

\* C16: evaluation never changes a rule: after any sequence of entry edits,
\* date changes, aggregations and batch queries every rule of the rule set has
\* the field values it had after parsing, and the results on screen are those
\* of evaluating the parsed rules again on the same bookings and reference date.
C16_EvaluationLeavesRulesAlone ==
  /\ rules = parsed.value
  /\ HighlightDone =>
       highlighted = highlightedRuleIds(dateFns, bookingEntries, parsed.value, bookingDate)
  /\ (Rendered /\ ~formatThrows(bookingDate)) =>
       \A i \in 1..Len(bookingEntries) :
         allowed[i] = allowedRuleIds(dateFns, bookingEntries[i], parsed.value, bookingDate)

\* after several edits and renders: two bookings, the reference date moved
C16_Witness ==
  /\ Rendered
  /\ bookingDate = parseISO(DateStr(2024, 12, 31))
  /\ bookingEntries = << Entry(DateStr(2024, 12, 31), IntStr(1)),
                         Entry(DateStr(2025, 1, 2), IntStr(2)) >>
  /\ allowed = <<Return(<<1, 2>>), Return(<<3>>)>>
  /\ highlighted = Return(<<1, 2, 3>>)
  /\ rules = parsed.value

(***************************************************************************)
(* Loading rules from the API: fetchPriceRulesFromAPI, the App callbacks   *)
(* handleAddToHistory, handleRulesLoaded and handleSaleabilityLoaded, and  *)
(* handleFetchFromAPI of APIConfiguration, which awaits one response per   *)
(* season and then the saleability response.                               *)
(***************************************************************************)
\* an HTTP response: not ok, or ok with a body
HttpError == [ok |-> FALSE]
HttpOk(body) == [ok |-> TRUE, body |-> body]

\* fetchPriceRulesFromAPI once the response has arrived
fetchPriceRulesFromAPI(response) ==
  IF ~response.ok THEN Throw("API request failed")
  ELSE parseXmlRules(response.body)

\* newHistory.slice(-5)
HistoryLimit == 5

\* variant: a search already in the history is added again
handleAddToHistory_noDuplicateCheck(prev, searchItem) ==
  LET newHistory == Append(prev, searchItem)
  IN IF Len(newHistory) > HistoryLimit
     THEN SubSeq(newHistory, Len(newHistory) - HistoryLimit + 1, Len(newHistory))
     ELSE newHistory

\* the searches performed, each once, in the order of their last performance
Performed(log, searchItem) ==
  SelectSeq(log, LAMBDA x : x # searchItem) \o <<searchItem>>

\* the updater handleAddToHistory hands to setSearchHistory
handleAddToHistory(prev, searchItem) ==
  IF \E i \in 1..Len(prev) :
       /\ prev[i].accommodationCode = searchItem.accommodationCode
       /\ prev[i].season = searchItem.season
  THEN prev
  ELSE LET newHistory == Append(prev, searchItem)
       IN IF Len(newHistory) > HistoryLimit
          THEN SubSeq(newHistory, Len(newHistory) - HistoryLimit + 1, Len(newHistory))
          ELSE newHistory

Infinity == [t |-> "inf"]

\* x < minYear where minYear is Infinity or a number; false for NaN
lessThanMinYear(x, minYear) ==
  x.t = "num" /\ (minYear = Infinity \/ x.v < minYear.v)

\* the loop of handleRulesLoaded over the rules, from rule j on
RECURSIVE minYearLoop(_, _, _, _)
minYearLoop(lib, loadedRules, j, minYear) ==
  IF j > Len(loadedRules) THEN Return(minYear)
  ELSE IF parseISOThrows(lib, loadedRules[j].from) \/ parseISOThrows(lib, loadedRules[j].to)
  THEN Throw("TypeError")
  ELSE LET fromYear == getFullYear(parseISO(loadedRules[j].from))
           toYear == getFullYear(parseISO(loadedRules[j].to))
           m1 == IF lessThanMinYear(fromYear, minYear) THEN fromYear ELSE minYear
           m2 == IF lessThanMinYear(toYear, m1) THEN toYear ELSE m1
       IN minYearLoop(lib, loadedRules, j + 1, m2)

\* handleRulesLoaded: setRules, then setYear(minYear) unless the loop threw or
\* found no year; gives whether it threw
handleRulesLoaded(loadedRules, threw) ==
  LET m == minYearLoop(dateFns, loadedRules, 1, Infinity)
  IN /\ rules' = loadedRules
     /\ year' = IF ~m.threw /\ m.value # Infinity THEN m.value ELSE year
     /\ threw = m.threw

\* variant: the merged rules keep the ids of their own batch
reassignIds_keepParsed(allRules) == allRules

\* allRules.map((rule, index) => ({...rule, id: index + 1}))
reassignIds(allRules) ==
  [index \in 1..Len(allRules) |-> [allRules[index] EXCEPT !.id = index]]

\* alert(`Failed to fetch price rules from API: ${error.message}`)
FetchFailedAlert(error) ==
  [t |-> "str", s |-> "Failed to fetch price rules from API", error |-> error]

\* what follows the last rules response, up to the saleability request:
\* onAddToHistory, onRulesLoaded; an exception of handleRulesLoaded reaches
\* the outer catch (alert) and the finally block
RulesFetched(call, searchItem) ==
  /\ searchHistory' = handleAddToHistory(searchHistory, searchItem)
  /\ searchLog' = Performed(searchLog, searchItem)
  /\ UNCHANGED upload
  /\ \E threw \in BOOLEAN :
       /\ handleRulesLoaded(call.allRules, threw)
       /\ IF threw
          THEN /\ alerted' = FetchFailedAlert("TypeError")
               /\ isLoading' = FALSE
               /\ fetchCall' = Idle
          ELSE /\ fetchCall' = [call EXCEPT !.pc = "saleability"]
               /\ UNCHANGED <<isLoading, alerted>>
  /\ UNCHANGED saleabilityData

\* the number of fetches of a run
MaxFetches == 2

\* the values of the inputs of APIConfiguration
AccommodationCodes == {EmptyStr, Str("A"), Str("B")}
SeasonValues == {EmptyStr, Str("all"), IntStr(getFullYear(Today).v)}

\* the bodies the price rules API answers with
ApiDocs ==
  { NestedDoc(<<RuleA, RuleB>>), NestedDoc(<<RuleC, RuleD>>),
    [wellFormed |-> FALSE, root |-> Elem("response", EmptyStr, <<>>)] }

ApiResponses == {HttpError} \cup {HttpOk(d) : d \in ApiDocs}

FetchInit ==
  /\ dateFns \in DateFnsVersions
  /\ LoadInit /\ ApiInit
  /\ evalArgs = Pending /\ evalResult = Pending
  /\ rules = NoRules
  /\ bookingEntries = InitialEntries
  /\ bookingDate = Today
  /\ highlighted = Pending /\ allowed = NotRendered
  /\ fileText = Pending /\ parsed = Pending /\ parseLog = <<>>

\* onChange of the accommodation code input: the value has changed
setAccommodationCode(value) ==
  /\ value # accommodationCode
  /\ accommodationCode' = value
  /\ UNCHANGED <<navVars, dateFns, evalVars, appVars, renderVars, parseVars, loadVars,
                 season, isLoading, fetchCall, alerted, fetchCount>>

\* onChange of the season select: another option is chosen
setSeason(value) ==
  /\ value # season
  /\ season' = value
  /\ UNCHANGED <<navVars, dateFns, evalVars, appVars, renderVars, parseVars, loadVars,
                 accommodationCode, isLoading, fetchCall, alerted, fetchCount>>

handleHistoryClick(historyItem) ==
  /\ accommodationCode' = historyItem.accommodationCode
  /\ season' = IF historyItem.season = Str("all") THEN Str("all")
               ELSE IntStr(historyItem.season.v)
  /\ UNCHANGED <<navVars, dateFns, evalVars, appVars, renderVars, parseVars, loadVars,
                 isLoading, fetchCall, alerted, fetchCount>>

\* click on the fetch button (disabled while isLoading), up to the first await
handleFetchFromAPI ==
  /\ ~isLoading /\ fetchCall = Idle
  /\ fetchCount < MaxFetches
  /\ IF ~Truthy(accommodationCode) \/ ~Truthy(season)
     THEN /\ alerted' = Str("Please fill in all fields")
          /\ UNCHANGED <<isLoading, fetchCall, fetchCount>>
     ELSE /\ alerted' = Null
          /\ fetchCount' = fetchCount + 1
          /\ isLoading' = TRUE
          /\ fetchCall' =
               [ pc |-> IF season = Str("all") THEN "seasons" ELSE "single",
                 accommodationCode |-> accommodationCode,
                 season |-> season,
                 seasons |-> IF season = Str("all")
                             THEN <<getFullYear(Today).v, getFullYear(Today).v + 1>>
                             ELSE <<>>,
                 batches |-> <<>>,
                 allRules |-> <<>> ]
  /\ UNCHANGED <<navVars, dateFns, evalVars, appVars, renderVars, parseVars, loadVars,
                 accommodationCode, season>>

\* variant: a season that fails aborts the whole fetch with an alert
SeasonResponse_abortOnFailure(response) ==
  /\ fetchCall.pc = "seasons"
  /\ LET r == fetchPriceRulesFromAPI(response)
         call == [fetchCall EXCEPT
                    !.allRules = IF r.threw THEN @ ELSE @ \o r.value,
                    !.batches = Append(@, r),
                    !.seasons = Tail(@)]
     IN IF r.threw
        THEN /\ alerted' = FetchFailedAlert(r.error)
             /\ isLoading' = FALSE
             /\ fetchCall' = Idle
             /\ UNCHANGED <<rules, loadVars>>
        ELSE IF call.seasons # <<>>
        THEN /\ fetchCall' = call
             /\ UNCHANGED <<rules, loadVars, isLoading, alerted>>
        ELSE RulesFetched([call EXCEPT !.allRules = reassignIds(@)],
                          [accommodationCode |-> call.accommodationCode,
                           season |-> Str("all")])
  /\ UNCHANGED <<navVars, dateFns, evalVars, bookingEntries, bookingDate, renderVars,
                 parseVars, accommodationCode, season, fetchCount>>

\* the response for one season of an 'all' fetch arrives; batches keeps the
\* outcome of each season
SeasonResponse(response) ==
  /\ fetchCall.pc = "seasons"
  /\ LET r == fetchPriceRulesFromAPI(response)
         call == [fetchCall EXCEPT
                    !.allRules = IF r.threw THEN @ ELSE @ \o r.value,
                    !.batches = Append(@, r),
                    !.seasons = Tail(@)]
     IN IF call.seasons # <<>>
        THEN /\ fetchCall' = call
             /\ UNCHANGED <<rules, loadVars, isLoading, alerted>>
        ELSE RulesFetched([call EXCEPT !.allRules = reassignIds(@)],
                          [accommodationCode |-> call.accommodationCode,
                           season |-> Str("all")])
  /\ UNCHANGED <<navVars, dateFns, evalVars, bookingEntries, bookingDate, renderVars,
                 parseVars, accommodationCode, season, fetchCount>>

\* the response of a single-season fetch arrives
SingleResponse(response) ==
  /\ fetchCall.pc = "single"
  /\ LET r == fetchPriceRulesFromAPI(response)
     IN IF r.threw
        THEN /\ alerted' = FetchFailedAlert(r.error)
             /\ isLoading' = FALSE
             /\ fetchCall' = Idle
             /\ UNCHANGED <<rules, loadVars>>
        ELSE RulesFetched([fetchCall EXCEPT !.allRules = r.value, !.batches = <<r>>],
                          [accommodationCode |-> fetchCall.accommodationCode,
                           season |-> parseInt(fetchCall.season)])
  /\ UNCHANGED <<navVars, dateFns, evalVars, bookingEntries, bookingDate, renderVars,
                 parseVars, accommodationCode, season, fetchCount>>

\* the saleability response arrives: data of the requested accommodation, or
\* a failure that is only logged
SaleabilityResponse(ok) ==
  /\ fetchCall.pc = "saleability"
  /\ saleabilityData' =
       IF ok THEN [propertyCode |-> fetchCall.accommodationCode] ELSE saleabilityData
  /\ isLoading' = FALSE
  /\ fetchCall' = Idle
  /\ UNCHANGED <<navVars, dateFns, evalVars, appVars, renderVars, parseVars, year,
                 searchHistory, searchLog, upload, accommodationCode, season, alerted,
                 fetchCount>>

FetchNext ==
  \/ \E value \in AccommodationCodes : setAccommodationCode(value)
  \/ \E value \in SeasonValues : setSeason(value)
  \/ \E i \in 1..Len(searchHistory) : handleHistoryClick(searchHistory[i])
  \/ handleFetchFromAPI
  \/ \E response \in ApiResponses : SeasonResponse(response)
  \/ \E response \in ApiResponses : SingleResponse(response)
  \/ \E ok \in BOOLEAN : SaleabilityResponse(ok)

SpecFetch == FetchInit /\ [][FetchNext]_vars

\* the rules of the seasons that were fetched and parsed, one batch after the
\* other
RECURSIVE ConcatBatches(_)
ConcatBatches(batches) ==
  IF batches = <<>> THEN <<>>
  ELSE (IF Head(batches).threw THEN <<>> ELSE Head(batches).value)
       \o ConcatBatches(Tail(batches))

\* an 'all' fetch has merged its seasons and loaded the result
MergeLoaded == fetchCall.pc = "saleability" /\ fetchCall.season = Str("all")

\* C17: when the batches of several seasons are merged, the ids of the merged
\* set are exactly 1..N in concatenation order (the first season's rules, in
\* parse order, before the second season's), no two rules share an id, and
\* every field other than id keeps its parsed value.
C17_MergedIdsReassigned ==
  MergeLoaded =>
    LET parsedRules == ConcatBatches(fetchCall.batches)
    IN /\ Len(rules) = Len(parsedRules)
       /\ \A k \in 1..Len(rules) :
            /\ rules[k].id = k
            /\ [rules[k] EXCEPT !.id = parsedRules[k].id] = parsedRules[k]
       /\ \A k, l \in 1..Len(rules) : rules[k].id = rules[l].id => k = l

\* two seasons of two rules each: the second season's rules get ids 3 and 4
C17_Witness ==
  /\ MergeLoaded
  /\ Len(fetchCall.batches) = 2
  /\ ~fetchCall.batches[1].threw /\ ~fetchCall.batches[2].threw
  /\ [k \in 1..2 |-> fetchCall.batches[2].value[k].id] = <<1, 2>>
  /\ [k \in 1..Len(rules) |-> rules[k].id] = <<1, 2, 3, 4>>
  /\ rules[3].originalXml = RuleA /\ rules[1].originalXml = RuleC

(***************************************************************************)
(* Errors of the evaluation (SpecHighlight, SpecEval)                      *)
(***************************************************************************)
\* a rule one of whose dates is absent or is no calendar date
Malformed(r) == ~IsDate(r.from) \/ ~IsDate(r.to)

MalformedRules == {j \in 1..Len(rules) : Malformed(rules[j])}

\* the rule set without its malformed rules (the others keep their ids)
WellFormedRules == SelectSeq(rules, LAMBDA r : ~Malformed(r))

\* the ids of a batch result that belong to well-formed rules
IdsOfWellFormed(ids) ==
  SelectSeq(ids, LAMBDA id : \A j \in MalformedRules : rules[j].id # id)

\* C18: an evaluation error is scoped to one (rule, booking) pair: when the
\* rule set has one rule with a malformed date, the batch evaluation of a
\* booking still completes, and what it reports for the other rules is what it
\* reports when the malformed rule is not in the set.
C18_EvaluationErrorScopedToPair ==
  Cardinality(MalformedRules) = 1 =>
    /\ ( /\ HighlightDone /\ Len(bookingEntries) = 1
         /\ ~Incomplete(bookingEntries[1]) ) =>
         /\ ~highlighted.threw
         /\ IdsOfWellFormed(highlighted.value) =
              highlightedRuleIds(dateFns, bookingEntries, WellFormedRules,
                                 bookingDate).value
    /\ Rendered =>
         \A i \in 1..Len(bookingEntries) :
           ~Incomplete(bookingEntries[i]) =>
             /\ ~allowed[i].threw
             /\ IdsOfWellFormed(allowed[i].value) =
                  allowedRuleIds(dateFns, bookingEntries[i], WellFormedRules,
                                 bookingDate).value

\* C19: a malformed or absent date never passes silently: the evaluation of a
\* complete booking against a rule whose validFrom or validTo is null or
\* unparsable ends in an error, and is never reported as a match.
C19_MalformedDateIsAnError ==
  (EvalDone /\ PresenceOk /\ Malformed(evalArgs.rule)) =>
    (evalResult.threw /\ ~Matched)

\* the four checks that follow the presence check
Checks == {"dateRange", "stayLength", "maxDaysToArrival", "arrivalWeekdays"}

\* every order of the four checks
CheckOrders ==
  {order \in [1..4 -> Checks] : \A a, b \in 1..4 : order[a] = order[b] => a = b}

\* for each check, whether it rejects the booking under test
Rejects ==
  [ c \in Checks |->
      CASE c = "dateRange" -> dateRangeRejects(evalArgs.rule, evalArgs.startDate)
        [] c = "stayLength" -> stayLengthRejects(evalArgs.rule, evalArgs.length)
        [] c = "maxDaysToArrival" ->
             maxDaysToArrivalRejects(evalArgs.rule, evalArgs.startDate,
                                     evalArgs.bookingCreationDate)
        [] c = "arrivalWeekdays" ->
             arrivalWeekdaysRejects(evalArgs.rule, evalArgs.startDate) ]

\* the checks run in the given order from the k-th on, stopping at the first
\* one that rejects
RECURSIVE RunChecks(_, _, _)
RunChecks(rejects, order, k) ==
  IF k > Len(order) THEN TRUE
  ELSE IF rejects[order[k]] THEN FALSE
  ELSE RunChecks(rejects, order, k + 1)

\* C20: the verdict does not depend on the order of the date-range,
\* stay-length, booking-window and weekday checks: every permutation of the
\* checks, short-circuiting on the first failure, gives the boolean the code
\* returns.
C20_CheckOrderIrrelevant ==
  (EvalDone /\ PresenceOk /\ ~evalResult.threw) =>
    LET rejects == Rejects
    IN \A order \in CheckOrders : evalResult.value = RunChecks(rejects, order, 1)

\* a booking that two of the checks reject and the two others accept
C20_Witness ==
  /\ EvalDone /\ PresenceOk /\ NotMatched
  /\ ~Rejects["dateRange"] /\ Rejects["stayLength"]
  /\ ~Rejects["maxDaysToArrival"] /\ Rejects["arrivalWeekdays"]

(***************************************************************************)
(* Stay bounds parsed as zero (SpecEval)                                   *)
(***************************************************************************)
\* C21: a stay bound counts as set whenever the parser produced a number for
\* it: a rule parsed with maxStay = 0 matches no booking with stayLength >= 1.
C21_ZeroMaxStayRejects ==
  (EvalDone /\ PresenceOk /\ evalArgs.rule.maxStay = Num(0)) => ~Matched

(***************************************************************************)
(* Duplicate field tags (SpecParse)                                        *)
(***************************************************************************)
\* the text of the first element with the tag below the node
FirstText(node, tag) == ElementsInOrder(node, tag)[1].text

\* the rule element reduced to the first occurrence of each field tag
FirstOccurrences(node) ==
  LET one(tag) ==
        IF Missing(node, tag) THEN <<>> ELSE <<Elem(tag, FirstText(node, tag), <<>>)>>
  IN Elem("rule", EmptyStr,
          one("from") \o one("to") \o one("percentage") \o one("arrivalWeekdays")
          \o one("minStay") \o one("maxStay") \o one("maxDaysToArrival"))

\* the fields a record takes from the field tags
FieldsOf(r) ==
  <<r.from, r.to, r.percentage, r.arrivalWeekdays, r.minStay, r.maxStay,
    r.maxDaysToArrival>>

HasDuplicate(node) == \E tag \in FieldTags : CountElements(node, tag) > 1

\* C22: when a rule element holds a field tag more than once, the record
\* takes the first occurrence in document order for each of the seven fields:
\* from and to are the text of the first occurrence, and all seven fields are
\* those of the same rule element with every later occurrence removed.
C22_FirstMatchWins ==
  ParseReturned =>
    \A k \in 1..Len(parsed.value) :
      LET node == parsed.value[k].originalXml
          r == parsed.value[k]
      IN HasDuplicate(node) =>
           /\ r.from = FirstText(node, "from")
           /\ r.to = FirstText(node, "to")
           /\ FieldsOf(r) =
                FieldsOf(parseXmlRules(NestedDoc(<<FirstOccurrences(node)>>)).value[1])

\* a second maxStay of 0 after the first of 2: the record has maxStay 2
C22_Witness ==
  /\ ParseReturned
  /\ \E k \in 1..Len(parsed.value) :
       /\ CountElements(parsed.value[k].originalXml, "maxStay") = 2
       /\ ElementsInOrder(parsed.value[k].originalXml, "maxStay")[2].text = IntStr(0)
       /\ parsed.value[k].maxStay = Num(2)

(***************************************************************************)
(* Colours of the loaded rule set (SpecFetch)                              *)
(***************************************************************************)
\* C23: every rule of the rule set handed to the application has the colour
\* palette[(id - 1) mod paletteSize], also after a multi-season fetch has
\* merged two parsed batches and re-assigned the ids.
C23_ColourFollowsId ==
  \A k \in 1..Len(rules) :
    rules[k].colour = Palette((rules[k].id - 1) % PaletteSize)

(***************************************************************************)
(* A season that fails in an 'all' fetch (SpecFetch)                       *)
(***************************************************************************)
\* the rules with ids 1..N in their order
Renumbered(rs) == [k \in 1..Len(rs) |-> [rs[k] EXCEPT !.id = k]]

\* the step on which the last season of an 'all' fetch is answered
SeasonsEnd == fetchCall.pc = "seasons" /\ fetchCall'.pc # "seasons"

\* the outcomes a season can have
SeasonOutcomes == {fetchPriceRulesFromAPI(response) : response \in ApiResponses}

\* a rule without one of its dates: date-fns 3 throws on it when the display
\* year is computed
LacksDate(rs) == \E k \in 1..Len(rs) : rs[k].from = Null \/ rs[k].to = Null

\* C24: in an 'all' fetch a season that cannot be fetched or parsed does not
\* abort the operation: when the last season is answered the rules of the
\* seasons that succeeded are loaded with ids 1..N, whichever seasons failed;
\* no alert is raised for a failed season (the only alert of an 'all' fetch is
\* the one of a date-less loaded rule under date-fns 3); and the loading flag
\* is true exactly while the operation runs, false once it has ended.
C24_FailedSeasonIsSkipped ==
  /\ [](isLoading <=> fetchCall # Idle)
  /\ [][ SeasonsEnd =>
           /\ \A k \in 1..Len(rules') : rules'[k].id = k
           /\ IF fetchCall'.pc = "saleability"
              THEN /\ rules' = Renumbered(ConcatBatches(fetchCall'.batches))
                   /\ alerted' = Null /\ isLoading'
              ELSE /\ \E last \in SeasonOutcomes :
                        rules' = Renumbered(ConcatBatches(Append(fetchCall.batches, last)))
                   /\ LacksDate(rules') /\ dateFns = 3
                   /\ alerted' # Null /\ ~isLoading' ]_vars

\* the first season failed and the second gave two rules, which are loaded
\* with ids 1 and 2 and no alert
C24_Witness ==
  /\ MergeLoaded
  /\ Len(fetchCall.batches) = 2
  /\ fetchCall.batches[1].threw /\ ~fetchCall.batches[2].threw
  /\ Len(rules) = 2 /\ rules[1].id = 1 /\ rules[2].id = 2
  /\ rules[1].originalXml = RuleA
  /\ alerted = Null

(***************************************************************************)
(* Saleability data and the accommodation of the rules (SpecFetch)         *)
(***************************************************************************)
\* the step on which a fetch that has loaded its rules ends
FetchEnds == fetchCall.pc = "saleability" /\ fetchCall'.pc = "idle"

\* C30: when a fetch that has loaded the rules of an accommodation ends, the
\* stored saleability data is absent or was fetched for that accommodation,
\* also when its saleability request failed after an earlier fetch for
\* another accommodation had succeeded.
C30_SaleabilityOfSameAccommodation ==
  [][ FetchEnds =>
        \/ saleabilityData' = Null
        \/ saleabilityData'.propertyCode = fetchCall.accommodationCode ]_vars

(***************************************************************************)
(* The booking test entries (SpecSession)                                  *)
(***************************************************************************)
\* q without its i-th element
Without(q, i) == SubSeq(q, 1, i - 1) \o SubSeq(q, i + 1, Len(q))

EntryFields == {"startDate", "length"}

\* after is before with entry i removed and nothing else changed
RemovedOne(before, after) ==
  /\ Len(after) = Len(before) - 1
  /\ \E i \in 1..Len(before) : after = Without(before, i)

\* after is before with one field of one entry changed and nothing else
UpdatedOneField(before, after) ==
  /\ Len(after) = Len(before)
  /\ \E i \in 1..Len(before), f \in EntryFields :
       /\ \A j \in 1..Len(before) : j # i => after[j] = before[j]
       /\ \A g \in EntryFields : g # f => after[i][g] = before[i][g]

\* after is before followed by one empty entry
AddedOne(before, after) == after = Append(before, InitialEntries[1])

\* C29: after any sequence of add, update and remove operations the entry
\* list is never empty; a step that changes the list removes exactly one
\* entry, or changes one field of one entry, or appends one empty entry, every
\* other entry keeping its value and its place.
C29_EntriesNeverEmpty ==
  /\ [](Len(bookingEntries) >= 1)
  /\ [][ bookingEntries' # bookingEntries =>
           \/ RemovedOne(bookingEntries, bookingEntries')
           \/ UpdatedOneField(bookingEntries, bookingEntries')
           \/ AddedOne(bookingEntries, bookingEntries') ]_vars

\* two entries have been added and all three filled in: any can be removed
C29_Witness ==
  /\ bookingEntries = <<Entry(DateStr(2024, 12, 31), IntStr(1)),
                        Entry(DateStr(2025, 1, 2), IntStr(2)),
                        Entry(DateStr(2025, 1, 2), IntStr(1))>>
  /\ UiShown

(***************************************************************************)
(* SpecHistory: searches added to the search history one after the other,  *)
(* as handleFetchFromAPI does through onAddToHistory once the rules of a    *)
(* search have arrived.                                                     *)
(***************************************************************************)
\* the searches: three accommodation codes, the 'all' season and one year
SearchItems ==
  [ accommodationCode : {Str("A"), Str("B"), Str("C")},
    season : {Str("all"), Num(getFullYear(Today).v)} ]

HistoryInit ==
  /\ dateFns \in DateFnsVersions
  /\ LoadInit /\ ApiInit
  /\ evalArgs = Pending /\ evalResult = Pending
  /\ rules = NoRules
  /\ bookingEntries = InitialEntries
  /\ bookingDate = Today
  /\ highlighted = Pending /\ allowed = NotRendered
  /\ fileText = Pending /\ parsed = Pending /\ parseLog = <<>>

\* onAddToHistory(searchItem): setSearchHistory with the updater
onAddToHistory(searchItem) ==
  /\ searchHistory' = handleAddToHistory(searchHistory, searchItem)
  /\ searchLog' = Performed(searchLog, searchItem)
  /\ UNCHANGED <<navVars, dateFns, evalVars, appVars, renderVars, parseVars, apiVars,
                 year, saleabilityData, upload>>

HistoryNext == \E searchItem \in SearchItems : onAddToHistory(searchItem)

SpecHistory == HistoryInit /\ [][HistoryNext]_vars

\* the search of the step: the one performed last
SearchOfStep == searchLog'[Len(searchLog')]

InHistory(item, history) == \E i \in 1..Len(history) : history[i] = item

\* C26: after any sequence of searches the history holds at most 5 entries,
\* no two of them with the same (accommodationCode, season) pair, and adding a
\* search whose pair is already present leaves the history unchanged.
C26_HistoryBoundedAndDistinct ==
  /\ [](/\ Len(searchHistory) <= 5
        /\ \A i, j \in 1..Len(searchHistory) :
             ( /\ searchHistory[i].accommodationCode = searchHistory[j].accommodationCode
               /\ searchHistory[i].season = searchHistory[j].season ) => i = j)
  /\ [][ (searchLog' # <<>> /\ InHistory(SearchOfStep, searchHistory)) =>
           searchHistory' = searchHistory ]_vars

\* a sixth search has pushed the first one out of a full history
C26_Witness ==
  /\ Len(searchHistory) = 5 /\ Len(searchLog) = 6
  /\ searchLog[6] = searchHistory[5]
  /\ ~InHistory(searchLog[1], searchHistory)

\* C27: the history consists of the (up to) 5 most recently performed
\* distinct searches: a search performed more recently than one that is in
\* the history is in the history.
C27_MostRecentSearches ==
  /\ \A i, j \in 1..Len(searchLog) :
       (i < j /\ InHistory(searchLog[i], searchHistory)) =>
         InHistory(searchLog[j], searchHistory)
  /\ Len(searchHistory) = IF Len(searchLog) < 5 THEN Len(searchLog) ELSE 5

(***************************************************************************)
(* SpecLoad: rule sets loaded from uploaded files and from the API, in any *)
(* order, an upload being possible while a fetch is in progress.           *)
(***************************************************************************)
\* alert('Failed to parse the uploaded file. ...')
ParseFailedAlert == Str("Failed to parse the uploaded file")

\* variant: a file that cannot be parsed empties the rule set
handleFileChange_clearsOnFailure(text) ==
  /\ upload' = text
  /\ LET parsedRules == parseXmlRules(text)
     IN IF parsedRules.threw
        THEN /\ alerted' = ParseFailedAlert
             /\ rules' = NoRules
             /\ UNCHANGED year
        ELSE \E threw \in BOOLEAN :
               /\ handleRulesLoaded(parsedRules.value, threw)
               /\ alerted' = IF threw THEN ParseFailedAlert ELSE Null
  /\ UNCHANGED <<navVars, dateFns, evalVars, bookingEntries, bookingDate, renderVars,
                 parseVars, searchHistory, saleabilityData, searchLog,
                 accommodationCode, season, isLoading, fetchCall, fetchCount>>

\* handleFileChange on a chosen file with the given text: parseXmlRules,
\* setRules and the year loop (the same statements as handleRulesLoaded); an
\* exception of the parse or of the loop is caught and alerted
handleFileChange(text) ==
  /\ upload' = text
  /\ LET parsedRules == parseXmlRules(text)
     IN IF parsedRules.threw
        THEN /\ alerted' = ParseFailedAlert
             /\ UNCHANGED <<rules, year>>
        ELSE \E threw \in BOOLEAN :
               /\ handleRulesLoaded(parsedRules.value, threw)
               /\ alerted' = IF threw THEN ParseFailedAlert ELSE Null
  /\ UNCHANGED <<navVars, dateFns, evalVars, bookingEntries, bookingDate, renderVars,
                 parseVars, searchHistory, saleabilityData, searchLog,
                 accommodationCode, season, isLoading, fetchCall, fetchCount>>

\* a text that is not well-formed XML
MalformedText == [wellFormed |-> FALSE, root |-> Elem("response", EmptyStr, <<>>)]

\* the files uploaded: not well formed, without rules, one rule of 2025, and
\* two rules the first of which has no <from>
FileDocs ==
  {MalformedText, NestedDoc(<<>>), NestedDoc(<<RuleC>>), NestedDoc(<<RuleD, RuleA>>)}

LoadCodes == {Str("A")}
LoadSeasons == {Str("all"), IntStr(getFullYear(Today).v)}
LoadResponses == {HttpError, HttpOk(MalformedText), HttpOk(NestedDoc(<<RuleA, RuleB>>))}

LoadNext ==
  \/ \E text \in FileDocs : handleFileChange(text)
  \/ \E value \in LoadCodes : setAccommodationCode(value)
  \/ \E value \in LoadSeasons : setSeason(value)
  \/ handleFetchFromAPI
  \/ \E response \in LoadResponses : SeasonResponse(response)
  \/ \E response \in LoadResponses : SingleResponse(response)
  \/ \E ok \in BOOLEAN : SaleabilityResponse(ok)

SpecLoad == FetchInit /\ [][LoadNext]_vars

\* the step of an upload whose text is not well-formed XML
FileRejected ==
  /\ upload' # Pending /\ ~upload'.wellFormed
  /\ alerted' = ParseFailedAlert
  /\ fetchCall' = fetchCall /\ accommodationCode' = accommodationCode
  /\ season' = season

\* the step on which a single-season fetch fails: the request is refused or
\* its body cannot be parsed
SingleFetchFailed ==
  /\ fetchCall.pc = "single" /\ fetchCall'.pc = "idle"
  /\ alerted' # Null
  /\ alerted'.error \in {"API request failed", "Invalid XML file"}

NegInfinity == [t |-> "-inf"]

\* a <= b on numbers, Infinity and -Infinity; false when one is NaN
numLeq(a, b) ==
  IF a.t = "num" /\ b.t = "num" THEN a.v <= b.v
  ELSE /\ a.t \in {"num", "inf", "-inf"} /\ b.t \in {"num", "inf", "-inf"}
       /\ (a.t = "-inf" \/ b.t = "inf")

\* x > maxYear where maxYear is -Infinity or a number; false for NaN
greaterThanMaxYear(x, maxYear) ==
  x.t = "num" /\ (maxYear = NegInfinity \/ x.v > maxYear.v)

\* the loop of the ruleYears memo over the rules, from rule j on
RECURSIVE ruleYearsLoop(_, _, _, _, _)
ruleYearsLoop(lib, rs, j, minYear, maxYear) ==
  IF j > Len(rs) THEN Return([min |-> minYear, max |-> maxYear])
  ELSE IF parseISOThrows(lib, rs[j].from) \/ parseISOThrows(lib, rs[j].to)
  THEN Throw("TypeError")
  ELSE LET fromYear == getFullYear(parseISO(rs[j].from))
           toYear == getFullYear(parseISO(rs[j].to))
       IN ruleYearsLoop(lib, rs, j + 1,
                        IF lessThanMinYear(fromYear, minYear) THEN fromYear ELSE minYear,
                        IF greaterThanMaxYear(toYear, maxYear) THEN toYear ELSE maxYear)

\* the ruleYears memo: null without rules, else {min, max}
ruleYears(lib, rs) ==
  IF Len(rs) = 0 THEN Return(Null) ELSE ruleYearsLoop(lib, rs, 1, Infinity, NegInfinity)

\* the year selector and the Timeline are rendered
TimelineShown == Len(rules) > 0 /\ ~ruleYears(dateFns, rules).threw

\* the previous-year button: setYear(year - 1), disabled at ruleYears.min
prevYear ==
  /\ TimelineShown
  /\ ~numLeq(year, ruleYears(dateFns, rules).value.min)
  /\ year' = Num(year.v - 1)
  /\ UNCHANGED <<navVars, dateFns, evalVars, appVars, renderVars, parseVars, apiVars,
                 searchHistory, saleabilityData, searchLog, upload>>

\* the next-year button: setYear(year + 1), disabled at ruleYears.max
nextYear ==
  /\ TimelineShown
  /\ ~numLeq(ruleYears(dateFns, rules).value.max, year)
  /\ year' = Num(year.v + 1)
  /\ UNCHANGED <<navVars, dateFns, evalVars, appVars, renderVars, parseVars, apiVars,
                 searchHistory, saleabilityData, searchLog, upload>>

\* a month tick of the year view is clicked
handleMonthClick(month) ==
  /\ TimelineShown /\ viewMode = "year"
  /\ selectedMonth' = month
  /\ viewMode' = "month"
  /\ UNCHANGED <<dateFns, evalVars, appVars, renderVars, parseVars, apiVars, loadVars>>

\* variant: the month navigation crosses the year in any case
navigateMonth_noRangeCheck(direction) ==
  /\ TimelineShown /\ viewMode = "month"
  /\ LET newMonth == selectedMonth + direction
     IN IF newMonth >= 0 /\ newMonth <= 11
        THEN selectedMonth' = newMonth /\ UNCHANGED year
        ELSE /\ year' = Num(year.v + direction)
             /\ selectedMonth' = IF direction = 1 THEN 0 ELSE 11
  /\ UNCHANGED <<dateFns, evalVars, appVars, renderVars, parseVars, apiVars,
                 viewMode, searchHistory, saleabilityData, searchLog, upload>>

\* the Previous (-1) and Next (1) buttons of the month view; Previous is
\* disabled in January of ruleYears.min, Next in December of ruleYears.max
navigateMonth(direction) ==
  /\ TimelineShown /\ viewMode = "month"
  /\ LET ry == ruleYears(dateFns, rules).value
         newMonth == selectedMonth + direction
     IN /\ direction = -1 => ~(selectedMonth = 0 /\ numLeq(year, ry.min))
        /\ direction = 1 => ~(selectedMonth = 11 /\ numLeq(ry.max, year))
        /\ IF newMonth >= 0 /\ newMonth <= 11
           THEN selectedMonth' = newMonth /\ UNCHANGED year
           ELSE IF newMonth = 12 /\ direction = 1
           THEN IF numLeq(Num(year.v + 1), ry.max)
                THEN year' = Num(year.v + 1) /\ selectedMonth' = 0
                ELSE UNCHANGED <<year, selectedMonth>>
           ELSE IF newMonth = -1 /\ direction = -1
           THEN IF numLeq(ry.min, Num(year.v - 1))
                THEN year' = Num(year.v - 1) /\ selectedMonth' = 11
                ELSE UNCHANGED <<year, selectedMonth>>
           ELSE UNCHANGED <<year, selectedMonth>>
  /\ UNCHANGED <<dateFns, evalVars, appVars, renderVars, parseVars, apiVars,
                 viewMode, searchHistory, saleabilityData, searchLog, upload>>

handleBackToYear ==
  /\ TimelineShown /\ viewMode = "month"
  /\ viewMode' = "year"
  /\ UNCHANGED <<dateFns, evalVars, appVars, renderVars, parseVars, apiVars, loadVars,
                 selectedMonth>>

\* APIConfiguration hands a fetched rule set to the App
onRulesLoaded(loadedRules) ==
  /\ \E threw \in BOOLEAN : handleRulesLoaded(loadedRules, threw)
  /\ UNCHANGED <<navVars, dateFns, evalVars, bookingEntries, bookingDate, renderVars,
                 parseVars, apiVars, searchHistory, saleabilityData, searchLog, upload>>

\* a rule valid from June of one year to June of another
YearsRule(fromYear, toYear) ==
  RuleElem(DateStr(fromYear, 6, 1), DateStr(toYear, 6, 30), Absent, Absent, Absent,
           Absent)

\* the documents loaded: rules over 2024..2026, over 2025 and 2026..2027,
\* over 2026 only, a rule ending before it starts, a rule whose from is no
\* date, no rule, and a text that is not well formed
NavDocs ==
  { NestedDoc(<<YearsRule(2024, 2026)>>),
    NestedDoc(<<YearsRule(2026, 2027), YearsRule(2025, 2025)>>),
    NestedDoc(<<YearsRule(2026, 2026)>>),
    NestedDoc(<<YearsRule(2026, 2024)>>),
    NestedDoc(<<RuleElem(JunkStr, DateStr(2025, 6, 30), Absent, Absent, Absent, Absent)>>),
    NestedDoc(<<>>),
    MalformedText }

\* the rule sets a fetch can hand over
NavRuleSets ==
  {parseXmlRules(text).value : text \in {d \in NavDocs : ~parseXmlRules(d).threw}}

Months == 0..11

NavNext ==
  \/ \E text \in NavDocs : handleFileChange(text)
  \/ \E loadedRules \in NavRuleSets : onRulesLoaded(loadedRules)
  \/ prevYear
  \/ nextYear
  \/ \E month \in Months : handleMonthClick(month)
  \/ \E direction \in {-1, 1} : navigateMonth(direction)
  \/ handleBackToYear

SpecNav == FetchInit /\ [][NavNext]_vars

\* every rule has calendar dates and does not end before it starts
ValidLoaded ==
  /\ Len(rules) > 0
  /\ \A k \in 1..Len(rules) :
       /\ IsDate(rules[k].from) /\ IsDate(rules[k].to)
       /\ DateLeq(rules[k].from, rules[k].to)

\* the earliest year a rule starts in, the latest year a rule ends in
MinRuleYear ==
  CHOOSE y \in {rules[k].from.y : k \in 1..Len(rules)} :
    \A k \in 1..Len(rules) : y <= rules[k].from.y
MaxRuleYear ==
  CHOOSE y \in {rules[k].to.y : k \in 1..Len(rules)} :
    \A k \in 1..Len(rules) : y >= rules[k].to.y

\* a step of the month view that changes the month, the rules staying
MonthMoves ==
  /\ viewMode = "month" /\ viewMode' = "month"
  /\ rules' = rules
  /\ selectedMonth' # selectedMonth

\* C28: while a non-empty rule set with valid dates and validFrom <= validTo
\* is loaded, the display year is within [ruleYears.min, ruleYears.max] after
\* any sequence of loads, year clicks and month navigations, and the selected
\* month is always in 0..11; the month navigation moves by one month within
\* the year, or from December to January of the next year, or from January to
\* December of the previous year, and crosses the year only into the range.
C28_YearWithinRuleYears ==
  /\ [](/\ selectedMonth \in 0..11
        /\ ValidLoaded => (MinRuleYear <= year.v /\ year.v <= MaxRuleYear))
  /\ [][ (MonthMoves /\ ValidLoaded) =>
           \/ /\ year' = year
              /\ selectedMonth' \in {selectedMonth - 1, selectedMonth + 1}
           \/ /\ selectedMonth = 11 /\ selectedMonth' = 0
              /\ year'.v = year.v + 1 /\ year.v + 1 <= MaxRuleYear
           \/ /\ selectedMonth = 0 /\ selectedMonth' = 11
              /\ year'.v = year.v - 1 /\ year.v - 1 >= MinRuleYear ]_vars

\* December of the last year of a rule set that spans three years, in the
\* month view: Next is disabled
C28_Witness ==
  /\ ValidLoaded /\ MinRuleYear = 2024 /\ MaxRuleYear = 2026
  /\ year = Num(2026) /\ selectedMonth = 11 /\ viewMode = "month"

====
